---- MODULE Spec2Model ----
(***************************************************************************)
(* Multi-tenant classification engine of CIL-Backend (src/main.py).        *)
(*                                                                         *)
(* Strings are sequences of one-character strings, so that lower(),        *)
(* strip(), split() and the substring test are computed and not assumed.   *)
(* A Python dict is a sequence of [k, v] pairs in insertion order.         *)
(* Confidences are integers in hundredths (0.6 is 60).                     *)
(***************************************************************************)
EXTENDS Integers, Sequences, FiniteSets, TLC

VARIABLES
    phase,          \* "loading" | "ready" | "crashed"
    listing,        \* os.listdir(CONFIG_DIR) while the module-level scan runs
    scanned,        \* how many of its entries the scan loop has been through
    ORG_PROGRAMS,   \* org -> { program_name -> {description, keywords, services} }
    ORG_KEYWORDS,   \* org -> { program_name -> [keywords...] }
    call,           \* thread -> the request it is answering
    result          \* thread -> where its handler is (pc) and its locals

vars == <<phase, listing, scanned, ORG_PROGRAMS, ORG_KEYWORDS, call, result>>

----------------------------------------------------------------------------
(* Bounds of the model *)

MaxPrograms == 3    \* program entries per scorer document
MaxTopK == 3        \* top_k ranges over -MaxTopK .. MaxTopK
MaxAlts == 2        \* alternatives in a backend reply
MaxChunks == 2      \* chunks of a backend stream
MaxEntries == 3     \* program entries per loader document
MaxThreads == 2     \* request threads served at the same time
MaxServices == 5    \* services of one program in a catalog document
MaxAccounts == 2    \* service accounts of one appointment lookup

----------------------------------------------------------------------------
(* Python built-ins *)

Max(a, b) == IF a >= b THEN a ELSE b
Min(a, b) == IF a <= b THEN a ELSE b

Range(s) == {s[i] : i \in DOMAIN s}

\* A character is a one-character string; a TLA+ string literal holds the code
\* points U+0000 to U+00FF, and these are the characters of the model.
\* str.lower(), one character: the upper-case letters among them are A to Z,
\* U+00C0 to U+00D6 and U+00D8 to U+00DE, each 32 below its lower-case
\* letter; every other character is its own lower case
LowerChar(c) ==
    CASE c = "A" -> "a"
      [] c = "B" -> "b"
      [] c = "C" -> "c"
      [] c = "D" -> "d"
      [] c = "E" -> "e"
      [] c = "F" -> "f"
      [] c = "G" -> "g"
      [] c = "H" -> "h"
      [] c = "I" -> "i"
      [] c = "J" -> "j"
      [] c = "K" -> "k"
      [] c = "L" -> "l"
      [] c = "M" -> "m"
      [] c = "N" -> "n"
      [] c = "O" -> "o"
      [] c = "P" -> "p"
      [] c = "Q" -> "q"
      [] c = "R" -> "r"
      [] c = "S" -> "s"
      [] c = "T" -> "t"
      [] c = "U" -> "u"
      [] c = "V" -> "v"
      [] c = "W" -> "w"
      [] c = "X" -> "x"
      [] c = "Y" -> "y"
      [] c = "Z" -> "z"
      [] c = "À" -> "à"
      [] c = "Á" -> "á"
      [] c = "Â" -> "â"
      [] c = "Ã" -> "ã"
      [] c = "Ä" -> "ä"
      [] c = "Å" -> "å"
      [] c = "Æ" -> "æ"
      [] c = "Ç" -> "ç"
      [] c = "È" -> "è"
      [] c = "É" -> "é"
      [] c = "Ê" -> "ê"
      [] c = "Ë" -> "ë"
      [] c = "Ì" -> "ì"
      [] c = "Í" -> "í"
      [] c = "Î" -> "î"
      [] c = "Ï" -> "ï"
      [] c = "Ð" -> "ð"
      [] c = "Ñ" -> "ñ"
      [] c = "Ò" -> "ò"
      [] c = "Ó" -> "ó"
      [] c = "Ô" -> "ô"
      [] c = "Õ" -> "õ"
      [] c = "Ö" -> "ö"
      [] c = "Ø" -> "ø"
      [] c = "Ù" -> "ù"
      [] c = "Ú" -> "ú"
      [] c = "Û" -> "û"
      [] c = "Ü" -> "ü"
      [] c = "Ý" -> "ý"
      [] c = "Þ" -> "þ"
      [] OTHER -> c

lower(s) == [i \in DOMAIN s |-> LowerChar(s[i])]

\* the whitespace of str.strip() and str.split() among those characters:
\* U+0009..U+000D (tab, newline, vertical tab, form feed, carriage return),
\* U+001C..U+001F (the four information separators), the space, U+0085 (next
\* line) and U+00A0 (no-break space)
IsSpace(c) ==
    c \in {"\t", "\n", "", "\f", "\r", "", "", "", "", " ",
           "", " "}

\* str.strip()
RECURSIVE lstrip(_)
lstrip(s) == IF s # <<>> /\ IsSpace(Head(s)) THEN lstrip(Tail(s)) ELSE s

RECURSIVE rstrip(_)
rstrip(s) ==
    IF s # <<>> /\ IsSpace(s[Len(s)]) THEN rstrip(SubSeq(s, 1, Len(s) - 1)) ELSE s

strip(s) == rstrip(lstrip(s))

\* A bytes value is the sequence of its bytes, each written as the character
\* of the same code; the bytes of the model are the printable ASCII bytes and
\* the ASCII whitespace, which decode (UTF-8) to the same characters.
\* The whitespace of bytes.strip(): the space and U+0009..U+000D
IsByteSpace(c) == c \in {"\t", "\n", "", "\f", "\r", " "}

\* bytes.strip()
RECURSIVE bytes_strip(_)
bytes_strip(s) ==
    IF s # <<>> /\ IsByteSpace(Head(s)) THEN bytes_strip(Tail(s))
    ELSE IF s # <<>> /\ IsByteSpace(s[Len(s)])
         THEN bytes_strip(SubSeq(s, 1, Len(s) - 1))
         ELSE s

\* repr() of one byte between the quotes
ReprByte(c, quote) ==
    CASE c = "\\" -> <<"\\", "\\">>
      [] c = quote -> <<"\\", c>>
      [] c = "\t" -> <<"\\", "t">>
      [] c = "\n" -> <<"\\", "n">>
      [] c = "\r" -> <<"\\", "r">>
      [] c = "" -> <<"\\", "x", "0", "b">>
      [] c = "\f" -> <<"\\", "x", "0", "c">>
      [] OTHER -> <<c>>

RECURSIVE ReprBytes(_, _)
ReprBytes(s, quote) ==
    IF s = <<>> THEN <<>> ELSE ReprByte(Head(s), quote) \o ReprBytes(Tail(s), quote)

\* repr(b), which is what an f-string writes for a bytes value: b'...', or
\* b"..." when the bytes hold a ' and no "
bytes_repr(s) ==
    LET quote == IF "'" \in Range(s) /\ "\"" \notin Range(s) THEN "\"" ELSE "'"
    IN  <<"b", quote>> \o ReprBytes(s, quote) \o <<quote>>

\* str.replace(old, new) for one-character old and new
replace(s, old, new) == [i \in DOMAIN s |-> IF s[i] = old THEN new ELSE s[i]]

\* str.split() without argument: runs of whitespace separate, no empty token
RECURSIVE split_from(_, _, _)
split_from(s, cur, acc) ==
    IF s = <<>> THEN (IF cur = <<>> THEN acc ELSE Append(acc, cur))
    ELSE IF IsSpace(Head(s))
         THEN split_from(Tail(s), <<>>, IF cur = <<>> THEN acc ELSE Append(acc, cur))
         ELSE split_from(Tail(s), Append(cur, Head(s)), acc)

split(s) == split_from(s, <<>>, <<>>)

\* `w in t` for strings
contains(w, t) ==
    \E i \in 0..(Len(t) - Len(w)) : SubSeq(t, i + 1, i + Len(w)) = w

\* seq[lo:hi] with lo >= 0 and any integer hi
PySlice(s, lo, hi) ==
    LET n == Len(s)
        h == IF hi < 0 THEN Max(0, n + hi) ELSE Min(hi, n)
        l == Min(lo, n)
    IN  SubSeq(s, l + 1, h)

\* list(set): the elements once each. Python fixes no order for them (it
\* follows the hashes of the strings, which change from one process to the
\* next), so every order is an outcome
ListsOfSet(S) == {l \in [1..Cardinality(S) -> S] : Range(l) = S}

\* dict operations; insertion order is kept, a re-assigned key keeps its place
DictHas(d, k) == \E i \in DOMAIN d : d[i].k = k
DictGet(d, k) == d[CHOOSE i \in DOMAIN d : d[i].k = k].v
DictKeys(d) == [i \in DOMAIN d |-> d[i].k]
\* Mutant: an assignment always adds a pair, a key may then occur twice
DictSet_Append(d, k, v) == Append(d, [k |-> k, v |-> v])

DictSet(d, k, v) ==
    IF DictHas(d, k)
    THEN [i \in DOMAIN d |-> IF d[i].k = k THEN [k |-> k, v |-> v] ELSE d[i]]
    ELSE Append(d, [k |-> k, v |-> v])

----------------------------------------------------------------------------
(* Parsed YAML / JSON values                                               *)
(* A field read with .get() is [tag, items, one]:                           *)
(*   "absent" missing, null or another falsy value,                        *)
(*   "list"   a list, its elements in items,                               *)
(*   "scalar" one value that is not a list, in one.                        *)
(* A string-valued field is [tag, s] with tag "absent", "str", "bytes" (a   *)
(* YAML !!binary value: no str, but with strip(), slices and len()) or     *)
(* "other" (a truthy value that is neither: a number, a boolean, a list, a *)
(* mapping, a date).                                                       *)

NoItem == [tag |-> "other", s |-> <<>>]
Absent == [tag |-> "absent", items |-> <<>>, one |-> NoItem]
ListOf(xs) == [tag |-> "list", items |-> xs, one |-> NoItem]
Scalar(x) == [tag |-> "scalar", items |-> <<>>, one |-> x]

NoStr == [tag |-> "absent", s |-> <<>>]
Str(s) == [tag |-> "str", s |-> s]
Bytes(s) == [tag |-> "bytes", s |-> s]
NonStr == [tag |-> "other", s |-> <<>>]

\* A dict key is a str or a bytes value, and b'H' is not the key 'H': the key
\* of bytes s is s behind a mark that is no character
BytesMark == "bytes"
BytesKey(s) == <<BytesMark>> \o s
IsBytesKey(k) == k # <<>> /\ Head(k) = BytesMark

\* the str a field of type str holds for a key (Option(category=k)): pydantic
\* takes a str as it is and decodes bytes
KeyText(k) == IF IsBytesKey(k) THEN Tail(k) ELSE k

\* f"{k}": a str as it is, the repr of bytes
FormatKey(k) == IF IsBytesKey(k) THEN bytes_repr(Tail(k)) ELSE k

\* `not x`
Falsy(x) ==
    \/ x.tag = "absent"
    \/ x.tag = "list" /\ x.items = <<>>
    \/ x.tag = "scalar" /\ x.one.tag \in {"str", "bytes"} /\ x.one.s = <<>>

_ensure_list(x) ==
    IF Falsy(x) THEN <<>>
    ELSE IF x.tag = "list" THEN x.items
    ELSE <<x.one>>

\* (d.get(key) or "").strip() for a name or a key that is a str or bytes; the
\* value is the dict key it gives, <<>> for an empty one ("other" has no
\* .strip())
StripKey(f) ==
    IF f.tag = "str" THEN strip(f.s)
    ELSE IF f.tag = "bytes" /\ bytes_strip(f.s) # <<>> THEN BytesKey(bytes_strip(f.s))
    ELSE <<>>

\* p.get("description", "") or "": a missing or falsy value becomes "", a
\* truthy value is kept as it is, str, bytes or other
pdesc(p) == IF p.description.tag = "absent" \/ p.description = Bytes(<<>>)
            THEN Str(<<>>)
            ELSE p.description

\* [k.lower() for k in xs if isinstance(k, str)]
RECURSIVE LowerStrs(_)
LowerStrs(xs) ==
    IF xs = <<>> THEN <<>>
    ELSE IF Head(xs).tag = "str"
         THEN <<lower(Head(xs).s)>> \o LowerStrs(Tail(xs))
         ELSE LowerStrs(Tail(xs))

\* [t.strip().lower() for t in skey.replace("/"," ").replace("&"," ").split() if t.strip()]
RECURSIVE StripLowerAll(_)
StripLowerAll(ts) ==
    IF ts = <<>> THEN <<>>
    ELSE IF strip(Head(ts)) # <<>>
         THEN <<lower(strip(Head(ts)))>> \o StripLowerAll(Tail(ts))
         ELSE StripLowerAll(Tail(ts))

\* [k.lower() for k in collected_keywords]
lower_all(ks) == [i \in DOMAIN ks |-> lower(ks[i])]

\* Mutant: the key is split on whitespace only, "/" and "&" stay in the token
skey_terms_whitespace_only(skey) == StripLowerAll(split(skey))

skey_terms(skey) == StripLowerAll(split(replace(replace(skey, "/", " "), "&", " ")))

----------------------------------------------------------------------------
(* Registry load: _load_org_file and the module-level scan                 *)

LoadRaised == [raised |-> TRUE, programs_by_name |-> <<>>,
               program_keywords_by_name |-> <<>>]

\* the `for s in services_list` loop; acc is [raised, services_by_key,
\* collected_keywords]. The outcomes: one for every order list({...}) may give
RECURSIVE load_services(_, _)
load_services(services_list, acc) ==
    IF services_list = <<>> THEN {acc}
    ELSE LET s == Head(services_list)
             rest == Tail(services_list)
         IN  IF s.tag # "dict" THEN load_services(rest, acc)
             ELSE IF s.key.tag = "other"
                  THEN {[acc EXCEPT !.raised = TRUE]}   \* no .strip() on such a key
             ELSE LET skey == StripKey(s.key) IN
                  IF skey = <<>> THEN load_services(rest, acc)
                  ELSE IF IsBytesKey(skey)              \* bytes.replace("/", " ")
                  THEN {[acc EXCEPT !.raised = TRUE]}
                  ELSE LET skw == LowerStrs(_ensure_list(s.keywords))
                           scontacts == _ensure_list(s.contacts)
                           sdata(all_s_keywords) ==
                               [phone |-> s.phone,
                                description |-> s.description,
                                keywords |-> all_s_keywords,
                                contacts |-> scontacts]
                       IN  UNION {load_services(rest,
                                      [raised |-> FALSE,
                                       services_by_key |->
                                           DictSet(acc.services_by_key, skey,
                                                   sdata(all_s_keywords)),
                                       collected_keywords |->
                                           acc.collected_keywords \o all_s_keywords]) :
                                  all_s_keywords \in
                                      ListsOfSet(Range(skw) \cup Range(skey_terms(skey)))}

\* the `for p in programs` loop
RECURSIVE load_programs(_, _, _)
load_programs(programs, programs_by_name, program_keywords_by_name) ==
    IF programs = <<>>
    THEN {[raised |-> FALSE, programs_by_name |-> programs_by_name,
           program_keywords_by_name |-> program_keywords_by_name]}
    ELSE LET p == Head(programs)
             rest == Tail(programs)
         IN  IF p.tag # "dict" THEN {LoadRaised}         \* p.get on a non-mapping
             ELSE IF p.name.tag = "other" THEN {LoadRaised}   \* no .strip()
             ELSE LET pname == StripKey(p.name) IN
                  IF pname = <<>>
                  THEN load_programs(rest, programs_by_name, program_keywords_by_name)
                  ELSE LET pkw == _ensure_list(p.keywords)
                           services_list == _ensure_list(p.services)
                           kws(got) == lower_all(got.collected_keywords)
                       IN  UNION {IF got.raised THEN {LoadRaised}
                                  ELSE load_programs(rest,
                                           DictSet(programs_by_name, pname,
                                               [description |-> pdesc(p),
                                                keywords |-> kws(got),
                                                services |-> got.services_by_key]),
                                           DictSet(program_keywords_by_name, pname,
                                                   kws(got))) :
                                  got \in load_services(services_list,
                                              [raised |-> FALSE,
                                               services_by_key |-> <<>>,
                                               collected_keywords |-> LowerStrs(pkw)])}

\* doc is the parsed YAML document: [tag, programs]; tag "invalid" is a file
\* yaml.safe_load rejects or a document that is no mapping. The value is the
\* set of outcomes of one call
_load_org_file(doc) ==
    IF doc.tag = "invalid" THEN {LoadRaised}
    ELSE LET programs == IF doc.programs.tag = "list" THEN doc.programs.items ELSE <<>>
         IN  load_programs(programs, <<>>, <<>>)

----------------------------------------------------------------------------
(* Result shapes: Option and ClassifyResponse                              *)

\* Optional[str]: description is a character sequence, reasoning a TLA+ string
None == [none |-> TRUE, s |-> <<>>]
Some(x) == [none |-> FALSE, s |-> x]
NoText == [none |-> TRUE, s |-> ""]
Text(x) == [none |-> FALSE, s |-> x]

Unknown == <<"U", "n", "k", "n", "o", "w", "n">>

Option(category, confidence, reasoning, description) ==
    [category |-> category, confidence |-> confidence,
     reasoning |-> reasoning, description |-> description]

ClassifyResponse(best, alternatives, used_fallback) ==
    [best |-> best, alternatives |-> alternatives, used_fallback |-> used_fallback]

NoPrograms ==
    ClassifyResponse(Option(Unknown, 0, Text("No programs loaded"), None), <<>>, TRUE)

\* programs.get(name, {}).get("description", ""): the stored value, a str,
\* bytes or another truthy value
DescriptionOf(programs, name) ==
    IF DictHas(programs, name) THEN DictGet(programs, name).description
    ELSE Str(<<>>)

\* Option(description=d): Optional[str] takes a str as it is and decodes
\* bytes; for any other value the constructor raises ValidationError
DescriptionRaises(d) == d.tag \notin {"str", "bytes"}
OptionDescription(d) == Some(d.s)

----------------------------------------------------------------------------
(* Keyword fallback: _keyword_guess                                        *)

\* sum(1 for w in kwlist if w and w in t): one per list position
KeywordScore(kwlist, t) ==
    Cardinality({i \in DOMAIN kwlist : kwlist[i] # <<>> /\ contains(kwlist[i], t)})

KeywordScores(t, program_keywords) ==
    [i \in DOMAIN program_keywords |->
        [name |-> program_keywords[i].k,
         score |-> KeywordScore(program_keywords[i].v, t)]]

\* Mutant: an unstable sort, a later program goes ahead of its equals
RECURSIVE InsertDesc_LaterFirst(_, _)
InsertDesc_LaterFirst(sorted, x) ==
    IF sorted = <<>> THEN <<x>>
    ELSE IF Head(sorted).score > x.score
         THEN <<Head(sorted)>> \o InsertDesc_LaterFirst(Tail(sorted), x)
         ELSE <<x>> \o sorted

\* scores.sort(key=score, reverse=True): stable, equal scores keep their order
RECURSIVE InsertDesc(_, _)
InsertDesc(sorted, x) ==
    IF sorted = <<>> THEN <<x>>
    ELSE IF Head(sorted).score >= x.score
         THEN <<Head(sorted)>> \o InsertDesc(Tail(sorted), x)
         ELSE <<x>> \o sorted

RECURSIVE SortDesc(_, _)
SortDesc(todo, sorted) ==
    IF todo = <<>> THEN sorted
    ELSE SortDesc(Tail(todo), InsertDesc(sorted, Head(todo)))

\* what a call gives that raised instead of returning a response
Raises == [raised |-> TRUE, response |-> NoPrograms]
Responds(response) == [raised |-> FALSE, response |-> response]

\* [Option(a, 0.4, ...) for a in alts if a in programs]; acc is
\* [raised, alt_opts], an Option whose description is neither str nor bytes
\* raises
RECURSIVE PartialOptions(_, _, _)
PartialOptions(alts, programs, acc) ==
    IF alts = <<>> \/ acc.raised THEN acc
    ELSE LET a == Head(alts).name IN
         IF ~DictHas(programs, a) THEN PartialOptions(Tail(alts), programs, acc)
         ELSE IF DescriptionRaises(DescriptionOf(programs, a))
              THEN [acc EXCEPT !.raised = TRUE]
         ELSE PartialOptions(Tail(alts), programs,
                  [raised |-> FALSE,
                   alt_opts |-> Append(acc.alt_opts,
                       Option(KeyText(a), 40, Text("Partial keyword match"),
                              OptionDescription(DescriptionOf(programs, a))))])

\* lines 258-278: best from the top score, the alternatives after it
KeywordMatch(scores, top_k, programs) ==
    LET best_cat == scores[1].name
        alts == PySlice(scores, 1, top_k)
        got == PartialOptions(alts, programs, [raised |-> FALSE, alt_opts |-> <<>>])
    IN  IF DescriptionRaises(DescriptionOf(programs, best_cat)) \/ got.raised
        THEN Raises
        ELSE Responds(ClassifyResponse(
                 Option(KeyText(best_cat), 60, Text("Keyword match"),
                        OptionDescription(DescriptionOf(programs, best_cat))),
                 got.alt_opts, TRUE))

\* Mutant: the weak-match branch is missing, a top score of 0 gives "Unknown"
_keyword_guess_no_weak(text, top_k, programs, program_keywords) ==
    LET t == lower(text)
        scores == SortDesc(KeywordScores(t, program_keywords), <<>>)
    IN  IF scores = <<>> \/ scores[1].score = 0
        THEN Responds(NoPrograms)
        ELSE KeywordMatch(scores, top_k, programs)

\* Mutant: the weak match also lists the programs after the first
_keyword_guess_weak_alts(text, top_k, programs, program_keywords) ==
    LET t == lower(text)
        scores == SortDesc(KeywordScores(t, program_keywords), <<>>)
    IN  IF scores = <<>> \/ scores[1].score = 0
        THEN IF programs # <<>>
             THEN LET best_cat == DictKeys(programs)[1]
                      got == PartialOptions(PySlice(scores, 1, top_k), programs,
                                 [raised |-> FALSE, alt_opts |-> <<>>])
                  IN  IF DescriptionRaises(DictGet(programs, best_cat).description)
                         \/ got.raised
                      THEN Raises
                      ELSE Responds(ClassifyResponse(
                               Option(KeyText(best_cat), 35, Text("Weak match"),
                                      OptionDescription(
                                          DictGet(programs, best_cat).description)),
                               got.alt_opts, TRUE))
             ELSE Responds(NoPrograms)
        ELSE KeywordMatch(scores, top_k, programs)

\* the value is [raised, response]: the ClassifyResponse returned, or raised
\* when an Option cannot be built
_keyword_guess(text, top_k, programs, program_keywords) ==
    LET t == lower(text)
        scores == SortDesc(KeywordScores(t, program_keywords), <<>>)
    IN  IF scores = <<>> \/ scores[1].score = 0
        THEN IF programs # <<>>
             THEN LET best_cat == DictKeys(programs)[1] IN
                  IF DescriptionRaises(DictGet(programs, best_cat).description)
                  THEN Raises
                  ELSE Responds(ClassifyResponse(
                           Option(KeyText(best_cat), 35, Text("Weak match"),
                                  OptionDescription(
                                      DictGet(programs, best_cat).description)),
                           <<>>, TRUE))
             ELSE Responds(NoPrograms)
        ELSE KeywordMatch(scores, top_k, programs)

----------------------------------------------------------------------------
(* Catalog rendering: _programs_for_prompt                                 *)

MaxServicesEach == 4      \* default of max_services_each
DescCap == 200            \* desc[:200]

Line(kind, name, text, more, phone, contacts) ==
    [kind |-> kind, name |-> name, text |-> text, more |-> more,
     phone |-> phone, contacts |-> contacts]

\* for c in contacts[:2]: c.get(...) raises on a contact that is no mapping
ContactsRaise(contacts) ==
    \E i \in DOMAIN PySlice(contacts, 0, 2) : contacts[i].tag # "dict"

ContactLines(contacts) ==
    LET cs == PySlice(contacts, 0, 2)
    IN  [i \in DOMAIN cs |->
            [name |-> cs[i].name, email |-> cs[i].email,
             booking_link |-> cs[i].booking_link]]

\* the `for skey, sdata in sdict.items()` loop with its cnt and break
RECURSIVE ServiceLines(_, _, _, _)
ServiceLines(sdict, cnt, max_services_each, acc) ==
    IF sdict = <<>> \/ acc.raised THEN acc
    ELSE LET skey == Head(sdict).k
             sdata == Head(sdict).v
         IN  IF ContactsRaise(sdata.contacts) THEN [acc EXCEPT !.raised = TRUE]
             ELSE LET line == Line("service", FormatKey(skey), <<>>, FALSE, sdata.phone,
                                   ContactLines(sdata.contacts))
                      lines == Append(acc.lines, line)
                  IN  IF cnt + 1 >= max_services_each
                      THEN [raised |-> FALSE,
                            lines |-> Append(lines,
                                Line("ellipsis", <<>>, <<>>, FALSE, <<>>, <<>>))]
                      ELSE ServiceLines(Tail(sdict), cnt + 1, max_services_each,
                               [raised |-> FALSE, lines |-> lines])

\* f"{desc[:200]}" for desc = (pdata.get("description") or "").strip(): d is
\* the stored description, a str or bytes; bytes that are not empty are
\* stripped and cut as bytes and written as their repr
DescText(d) ==
    IF d.tag = "bytes" /\ d.s # <<>>
    THEN bytes_repr(PySlice(bytes_strip(d.s), 0, DescCap))
    ELSE PySlice(strip(d.s), 0, DescCap)

\* len(desc) > 200
DescCut(d) ==
    Len(IF d.tag = "bytes" THEN bytes_strip(d.s) ELSE strip(d.s)) > DescCap

\* the `for pname, pdata in programs.items()` loop;
\* (pdata.get("description") or "").strip() raises for a description that is
\* neither str nor bytes; the line holds the name and the description as the
\* f-string writes them
RECURSIVE ProgramLines(_, _, _)
ProgramLines(programs, max_services_each, acc) ==
    IF programs = <<>> \/ acc.raised THEN acc
    ELSE LET pname == Head(programs).k
             pdata == Head(programs).v
         IN  IF pdata.description.tag \notin {"str", "bytes"}
             THEN [acc EXCEPT !.raised = TRUE]
             ELSE LET line == Line("program", FormatKey(pname),
                                   DescText(pdata.description),
                                   DescCut(pdata.description), <<>>, <<>>)
                  IN  ProgramLines(Tail(programs), max_services_each,
                          ServiceLines(pdata.services, 0, max_services_each,
                              [raised |-> FALSE, lines |-> Append(acc.lines, line)]))

_programs_for_prompt(programs, max_services_each) ==
    ProgramLines(programs, max_services_each, [raised |-> FALSE, lines |-> <<>>])

----------------------------------------------------------------------------
(* LLM classification: _call_llm and the parsing in classify               *)

NoData == [tag |-> "other", best |-> Absent, alternatives |-> Absent]

\* json.loads("{}"): a mapping without "best" and without "alternatives"
EmptyObject ==
    [tag |-> "dict",
     best |-> [tag |-> "absent", category |-> NoStr,
               confidence |-> [tag |-> "absent", v |-> 0],
               reasoning |-> [tag |-> "absent", s |-> ""]],
     alternatives |-> Absent]

\* backend is what the text-generation service does with one call:
\*   "no_key"   DEEPSEEK_API_KEY is not configured
\*   "error"    client.chat.completions.create raises (transport, timeout, auth)
\*   "not_json" the reply content is not JSON
\*   "empty"    the reply content is empty or missing: raw is "{}"
\*   "json"     json.loads(content) gives backend.data
\* _call_llm, lines 345-346: raw = content or "{}"; json.loads(raw)
json_loads(backend) ==
    IF backend.kind = "not_json" THEN [raised |-> TRUE, data |-> NoData]
    ELSE IF backend.kind = "empty" THEN [raised |-> FALSE, data |-> EmptyObject]
    ELSE [raised |-> FALSE, data |-> backend.data]

\* float(o.get("confidence", default))
ConfidenceRaises(c) == c.tag = "bad"
ConfidenceOf(c, default) == IF c.tag = "num" THEN c.v ELSE default

\* o.get("reasoning") into Optional[str]
ReasoningRaises(r) == r.tag = "other"
ReasoningOf(r) == IF r.tag = "str" THEN Text(r.s) ELSE NoText

\* a category is [tag, s]: "absent" no key, "null", "str" the string s, "list"
\* a list (s = <<>> the empty list, else a list with elements: unhashable),
\* "other" a number
\* `not oc`
CategoryFalsy(category) ==
    \/ category.tag \in {"absent", "null"}
    \/ category.tag \in {"str", "list"} /\ category.s = <<>>

\* Mutant: the loop without `oc not in programs`
RECURSIVE AltOptions_Unfiltered(_, _, _)
AltOptions_Unfiltered(alts, programs, acc) ==
    IF alts = <<>> \/ acc.raised THEN acc
    ELSE LET o == Head(alts)
             rest == Tail(alts)
         IN  IF o.tag # "dict" THEN [acc EXCEPT !.raised = TRUE]
             ELSE IF CategoryFalsy(o.category)
                  THEN AltOptions_Unfiltered(rest, programs, acc)
             ELSE IF o.category.tag = "list"
                  THEN [acc EXCEPT !.raised = TRUE]
             ELSE IF o.category.tag # "str"
                  THEN AltOptions_Unfiltered(rest, programs, acc)
             ELSE IF \/ ConfidenceRaises(o.confidence)
                     \/ ReasoningRaises(o.reasoning)
                     \/ DescriptionRaises(DescriptionOf(programs, o.category.s))
                  THEN [acc EXCEPT !.raised = TRUE]
             ELSE AltOptions_Unfiltered(rest, programs,
                      [raised |-> FALSE,
                       alt_opts |-> Append(acc.alt_opts,
                           Option(o.category.s, ConfidenceOf(o.confidence, 30),
                                  ReasoningOf(o.reasoning),
                                  OptionDescription(
                                      DescriptionOf(programs, o.category.s))))])

\* the `for o in alts[: max(0, top_k - 1)]` loop; acc is [raised, alt_opts]
RECURSIVE AltOptions(_, _, _)
AltOptions(alts, programs, acc) ==
    IF alts = <<>> \/ acc.raised THEN acc
    ELSE LET o == Head(alts)
             rest == Tail(alts)
         IN  IF o.tag # "dict" THEN [acc EXCEPT !.raised = TRUE]
             ELSE IF CategoryFalsy(o.category)
                  THEN AltOptions(rest, programs, acc)   \* `not oc`
             ELSE IF o.category.tag = "list"
                  THEN [acc EXCEPT !.raised = TRUE]      \* unhashable category
             ELSE IF o.category.tag # "str"
                  THEN AltOptions(rest, programs, acc)   \* a number: no program
             ELSE IF ~DictHas(programs, o.category.s)
                  THEN AltOptions(rest, programs, acc)
             ELSE IF \/ ConfidenceRaises(o.confidence)
                     \/ ReasoningRaises(o.reasoning)
                     \/ DescriptionRaises(DescriptionOf(programs, o.category.s))
                  THEN [acc EXCEPT !.raised = TRUE]
             ELSE AltOptions(rest, programs,
                      [raised |-> FALSE,
                       alt_opts |-> Append(acc.alt_opts,
                           Option(o.category.s, ConfidenceOf(o.confidence, 30),
                                  ReasoningOf(o.reasoning),
                                  OptionDescription(
                                      DescriptionOf(programs, o.category.s))))])

EmptyBest == [tag |-> "dict", category |-> NoStr,
              confidence |-> [tag |-> "absent", v |-> 0], reasoning |-> [tag |-> "absent", s |-> ""]]

\* lines 469-496: the reply turned into a ClassifyResponse, or an exception
llm_response(data, top_k, programs, categories) ==
    LET failed == Raises
    IN  IF data.tag # "dict" THEN failed
        ELSE IF data.best.tag \notin {"absent", "dict"} THEN failed
        ELSE LET best == IF data.best.tag = "absent" THEN EmptyBest ELSE data.best
                 alts == _ensure_list(data.alternatives)
             IN  IF best.category.tag \notin {"absent", "str"} THEN failed
                 ELSE IF ConfidenceRaises(best.confidence) \/
                         ReasoningRaises(best.reasoning) THEN failed
                 ELSE LET best_cat == IF best.category.tag = "absent"
                                      THEN categories[1] ELSE best.category.s
                          best_opt == Option(KeyText(best_cat),
                                          ConfidenceOf(best.confidence, 50),
                                          ReasoningOf(best.reasoning),
                                          OptionDescription(
                                              DescriptionOf(programs, best_cat)))
                          got == AltOptions(PySlice(alts, 0, Max(0, top_k - 1)),
                                     programs, [raised |-> FALSE, alt_opts |-> <<>>])
                      IN  IF DescriptionRaises(DescriptionOf(programs, best_cat))
                          THEN failed
                          ELSE IF got.raised THEN failed
                          ELSE Responds(ClassifyResponse(best_opt, got.alt_opts, FALSE))

----------------------------------------------------------------------------
(* Tenant resolution: classify and stream_chat                             *)

\* Mutant: the organization key is used as given
ResolveOrg_AsGiven(organization) == organization

\* organization if organization in ORG_PROGRAMS else "default"
ResolveOrg(organization) ==
    IF DictHas(ORG_PROGRAMS, organization) THEN organization ELSE "default"

\* ORG_PROGRAMS.get(org, {})
OrgGet(d, org) == IF DictHas(d, org) THEN DictGet(d, org) ELSE <<>>

----------------------------------------------------------------------------
(* Streaming chat: stream_chat                                             *)

\* a chunk is [none, s]: delta.content is missing or None, or the string s

\* Mutant: the loop without `if content`, every chunk that has a content
\* field is yielded
ContentTruthy_KeepsEmpty(chunk) == ~chunk.none

\* lines 441-442: content = getattr(delta, "content", None); `if content`
ContentTruthy(chunk) == ~chunk.none /\ chunk.s # ""

----------------------------------------------------------------------------
(* Appointment lookup: consumer_book_appointment.py                        *)
(* What the calendar service and the files answer is an input of the call: *)
(* an account is [file, creds_ok, calendar_list, events], calendar_list    *)
(* and events[calendar_id] are responses [fails, items]. A datetime is     *)
(* [date, time] in whole days and hours.                                   *)

Fails == [fails |-> TRUE, items |-> <<>>]
Items(xs) == [fails |-> FALSE, items |-> xs]

Attendee(displayName, email) ==
    [tag |-> "dict", displayName |-> displayName, email |-> email]

NotAnAttendee == [tag |-> "other", displayName |-> NoStr, email |-> NoStr]

Event(id, summary, start, attendees) ==
    [id |-> id, summary |-> summary, start |-> start, attendees |-> attendees]

DateTime(date, time) == [tag |-> "dateTime", date |-> date, time |-> time]
AllDay(date) == [tag |-> "date", date |-> date, time |-> 0]
NoStart == [tag |-> "absent", date |-> 0, time |-> 0]

\* event["start"].get("dateTime", event["start"].get("date")) and
\* datetime.fromisoformat raise on an event without a usable start
StartRaises(start) == start.tag \notin {"dateTime", "date"}

\* a value of an attendee is [tag, s]: "absent" no key, "null" None, "str"
\* the string s, "other" a number that is not 0
NullStr == [tag |-> "null", s |-> <<>>]

\* attendee.get("email")
AttendeeEmail(attendee) ==
    IF attendee.email.tag = "absent" THEN NullStr ELSE attendee.email

\* attendee.get("displayName", attendee.get("email", "")): the value under
\* displayName whenever the key is there, whatever it is
AttendeeName(attendee) ==
    IF attendee.displayName.tag # "absent" THEN attendee.displayName
    ELSE IF attendee.email.tag # "absent" THEN attendee.email
    ELSE Str(<<>>)

Appointment(event, calendar_id, account_file, attendee_email, attendee_name) ==
    [event_id |-> event.id, calendar_id |-> calendar_id,
     event_summary |-> event.summary, attendee_email |-> attendee_email,
     attendee_name |-> attendee_name,
     datetime |-> [date |-> event.start.date, time |-> event.start.time],
     date |-> event.start.date, time |-> event.start.time,
     service_account |-> account_file]

NoAttendee == <<"N", "o", " ", "a", "t", "t", "e", "n", "d", "e", "e">>

\* `for attendee in attendees`; acc is [raised, all_appointments]
RECURSIVE AttendeeLoop(_, _, _, _, _)
AttendeeLoop(attendees, event, calendar_id, account_file, acc) ==
    IF attendees = <<>> THEN acc
    ELSE LET attendee == Head(attendees) IN
         IF attendee.tag # "dict" THEN [acc EXCEPT !.raised = TRUE]
         ELSE AttendeeLoop(Tail(attendees), event, calendar_id, account_file,
                  [acc EXCEPT !.all_appointments =
                      Append(@, Appointment(event, calendar_id, account_file,
                                    AttendeeEmail(attendee),
                                    AttendeeName(attendee)))])

\* `for event in events`; admin is TRUE in get_appointments_by_date, which
\* also lists an event without attendees
RECURSIVE EventLoop(_, _, _, _, _)
EventLoop(events, calendar_id, account_file, admin, acc) ==
    IF events = <<>> \/ acc.raised THEN acc
    ELSE LET event == Head(events) IN
         IF StartRaises(event.start) THEN [acc EXCEPT !.raised = TRUE]
         ELSE EventLoop(Tail(events), calendar_id, account_file, admin,
                  IF event.attendees # <<>>
                  THEN AttendeeLoop(event.attendees, event, calendar_id,
                                    account_file, acc)
                  ELSE IF admin
                  THEN [acc EXCEPT !.all_appointments =
                           Append(@, Appointment(event, calendar_id, account_file,
                                         NullStr, Str(NoAttendee)))]
                  ELSE acc)

\* lines 236-304, one iteration of `for calendar_id in calendars_to_poll` once
\* events().list().execute() has answered with events_result: a listing that
\* fails and an event that raises are caught there, what was collected stays
PollCalendar(events_result, calendar_id, account_file, admin, all_appointments) ==
    IF events_result.fails THEN all_appointments
    ELSE EventLoop(events_result.items, calendar_id, account_file, admin,
             [raised |-> FALSE, all_appointments |-> all_appointments]).all_appointments

\* service_account_file is [form, files]:
\*   "str"   one path of a JSON file, files holds that account;
\*   "txt"   a file of paths, files is what load_service_accounts_from_file
\*           returns (<<>> when the file cannot be read);
\*   "list"  a list of paths;
\*   "none"  None, files is <<>>: falsy like the empty list;
\*   "other" a number that is not 0: truthy, without len() and iteration.
\* env is SERVICE_ACCOUNTS_JSON: [set, files], files what
\* load_service_accounts_from_env returns
ResolveAccounts(service_account_file, env) ==
    IF service_account_file.files = <<>> /\ service_account_file.form # "other" /\ env.set
    THEN env.files
    ELSE service_account_file.files

\* list.sort(key=lambda x: x["time"]): stable
RECURSIVE InsertByTime(_, _)
InsertByTime(sorted, x) ==
    IF sorted = <<>> THEN <<x>>
    ELSE IF sorted[Len(sorted)].time <= x.time THEN Append(sorted, x)
    ELSE Append(InsertByTime(SubSeq(sorted, 1, Len(sorted) - 1), x),
                sorted[Len(sorted)])

RECURSIVE SortByTime(_)
SortByTime(xs) ==
    IF xs = <<>> THEN <<>>
    ELSE InsertByTime(SortByTime(SubSeq(xs, 1, Len(xs) - 1)), xs[Len(xs)])

\* str.replace(" ", "")
without_spaces(s) == SelectSeq(s, LAMBDA c : c # " ")

\* appt["attendee_name"].lower() if appt["attendee_name"] else "": a name that
\* is truthy and no string has no lower()
NameRaises(appt) == appt.attendee_name.tag = "other"

\* lines 487-520: the test one appointment has to pass
Matches(appt, first_name, last_name, start_time, service) ==
    LET full_name == lower(strip(first_name \o <<" ">> \o last_name))
        full_name_no_space == without_spaces(full_name)
        service_lower == lower(service)
        appt_name == IF appt.attendee_name.tag = "str"
                     THEN lower(appt.attendee_name.s) ELSE <<>>
        appt_name_no_space == without_spaces(appt_name)
        appt_service == lower(appt.event_summary)
        name_match == \/ contains(full_name, appt_name)
                      \/ contains(appt_name, full_name)
                      \/ contains(full_name_no_space, appt_name_no_space)
                      \/ contains(appt_name_no_space, full_name_no_space)
        date_match == appt.date = start_time.date
        service_match == \/ contains(service_lower, appt_service)
                         \/ contains(appt_service, service_lower)
    IN  name_match /\ date_match /\ service_match

\* get_matched_appointments, lines 486-523: the appointments that match; a
\* name without lower() raises into the outer except, which returns []
Matched(all_appointments, first_name, last_name, start_time, service) ==
    IF \E i \in DOMAIN all_appointments : NameRaises(all_appointments[i])
    THEN <<>>
    ELSE SelectSeq(all_appointments,
             LAMBDA appt : Matches(appt, first_name, last_name, start_time, service))

----------------------------------------------------------------------------
(* Inputs: configuration documents                                         *)

SeqsUpTo(S, n) == UNION {[1..k -> S] : k \in 0..n}

\* a program entry whose description is the string description
Program(name, description, keywords, services) ==
    [tag |-> "dict", name |-> name, description |-> Str(description),
     keywords |-> keywords, services |-> services]

\* the same entry with a description that is neither str nor bytes: a list or
\* a mapping (`description: [a, b]`), or a number (`description: 5`)
NonStrDescription(p) == [p EXCEPT !.description = NonStr]

\* the same entry with its description given as bytes (`description: !!binary`)
BytesDescription(p) == [p EXCEPT !.description = Bytes(@.s)]

Service(key, phone, keywords, contacts) ==
    [tag |-> "dict", key |-> key, description |-> <<>>, phone |-> phone,
     keywords |-> keywords, contacts |-> contacts]

Contact(name, email, booking_link) ==
    [tag |-> "dict", name |-> name, email |-> email, booking_link |-> booking_link]

Doc(programs) == [tag |-> "mapping", programs |-> programs]

\* program names
pH == <<"H">>
pM == <<"M">>
pT == <<"T">>
pV == <<"V">>
pB == <<"B">>      \* the name that is given as bytes
pX == <<"X">>      \* a name no configuration declares

\* a document without programs
DocEmpty == Doc(Absent)

\* H reaches "r" twice (declared, and derived from its service key "R w"),
\* M has only a service key, T declares an empty keyword
DocA ==
    Doc(ListOf(<<
        Program(Str(pH), <<"h">>, ListOf(<<Str(<<"r">>)>>),
            ListOf(<<Service(Str(<<"R", " ", "w">>), <<"5">>, Absent,
                        ListOf(<<Contact(<<"n">>, <<"e">>, <<>>)>>))>>)),
        Program(Str(pM), <<>>, Absent,
            ListOf(<<Service(Str(<<"W">>), <<>>, Absent, Absent)>>)),
        Program(Str(pT), <<"t">>, ListOf(<<Str(<<>>)>>), Absent)
    >>))

\* V with the description b'v ', then a program whose name is the bytes
\* b' B ', stored under b'B'
DocB ==
    Doc(ListOf(<<
        BytesDescription(Program(Str(pV), <<"v", " ">>, ListOf(<<Str(<<"r">>)>>), Absent)),
        Program(Bytes(<<" ", "B", " ">>), <<"b">>, ListOf(<<Str(<<"x">>)>>), Absent)
    >>))

\* H as a plain program, then V with a description that is a number
DocC ==
    Doc(ListOf(<<
        Program(Str(pH), <<"h">>, ListOf(<<Str(<<"r">>)>>), Absent),
        NonStrDescription(Program(Str(pV), <<>>, ListOf(<<Str(<<"r">>)>>), Absent))
    >>))

\* a file yaml.safe_load cannot parse
DocInvalid == [tag |-> "invalid", programs |-> Absent]

\* Documents for the keyword scorer: every list of up to MaxPrograms entries,
\* each a name (V with a description that is neither str nor bytes; the bytes
\* b'B' with a description in bytes and the second layout) with one of three
\* keyword layouts:
\*   nothing declared, no service;
\*   "R" declared and a service "r/w", so "r" arrives twice;
\*   an empty keyword and "w" declared
ScorerLayouts ==
    {[keywords |-> Absent, services |-> Absent],
     [keywords |-> ListOf(<<Str(<<"R">>)>>),
      services |-> ListOf(<<Service(Str(<<"r", "/", "w">>), <<>>, Absent, Absent)>>)],
     [keywords |-> ListOf(<<Str(<<>>), Str(<<"w">>)>>), services |-> Absent]}

ScorerEntries ==
    {Program(Str(n), <<>>, k.keywords, k.services) :
        n \in {pH, pM, pT}, k \in ScorerLayouts}
    \cup {NonStrDescription(Program(Str(pV), <<>>, k.keywords, k.services)) :
            k \in ScorerLayouts}
    \cup {BytesDescription(Program(Bytes(pB), <<"b">>,
                                   ListOf(<<Str(<<"R">>)>>),
                                   ListOf(<<Service(Str(<<"r", "/", "w">>), <<>>,
                                                    Absent, Absent)>>)))}

ScorerDocs == {Doc(ListOf(l)) : l \in SeqsUpTo(ScorerEntries, MaxPrograms)}

ScorerTexts == {<<"R">>, <<"x">>, <<"x", "W">>}

\* Documents for the loader. Service entries:
\*   key "w" with keywords ["W", "H"]: "w" arrives declared and derived;
\*   key "w" again with the single string "T" as keywords;
\*   key " M & t " with a number as keywords;
\*   keys "R w" and "R/w" with no keywords;
\*   an entry that is no mapping, a whitespace key, a missing key
NotAService == [Service(NoStr, <<>>, Absent, Absent) EXCEPT !.tag = "other"]

LoadServices ==
    <<Service(Str(<<"w">>), <<>>, ListOf(<<Str(<<"W">>), Str(<<"H">>)>>), Absent),
      NotAService,
      Service(Str(<<" ", " ">>), <<>>, ListOf(<<Str(<<"V">>)>>), Absent),
      Service(Str(<<"w">>), <<>>, Scalar(Str(<<"T">>)), Absent),
      Service(NoStr, <<>>, ListOf(<<Str(<<"V">>)>>), Absent),
      Service(Str(<<" ", "M", " ", "&", " ", "t", " ">>), <<>>, Scalar(NonStr), Absent)>>

NotAProgram == [Program(NoStr, <<>>, Absent, Absent) EXCEPT !.tag = "other"]

\* Program entries: no mapping; a number as name; no name; a whitespace name;
\* " H " with every service entry above; "H" with one string as keywords;
\* "M" with a number as keywords and one service that is not in a list;
\* "T" with a service and no keywords; "T" with lists that hold no string
\* and a description that is a number; the bytes b' H' as name, with a
\* description and a keyword in bytes and a service whose key is the bytes
\* b' '; the bytes b' ' as name; "M" with a service whose key is the bytes b'w'
LoadEntries ==
    {NotAProgram,
     Program(NonStr, <<>>, Absent, Absent),
     Program(NoStr, <<"x">>, ListOf(<<Str(<<"V">>)>>), Absent),
     Program(Str(<<" ">>), <<"x">>, ListOf(<<Str(<<"V">>)>>), Absent),
     Program(Str(<<" ", "H", " ">>), <<"1">>,
             ListOf(<<Str(<<"V">>), NonStr, Str(<<"v">>)>>), ListOf(LoadServices)),
     Program(Str(<<"H">>), <<"2">>, Scalar(Str(<<"T">>)), Absent),
     Program(Str(<<"M">>), <<>>, Scalar(NonStr),
             Scalar(Service(Str(<<"R", " ", "w">>), <<>>, Absent, Absent))),
     Program(Str(<<"T">>), <<>>, Absent,
             ListOf(<<Service(Str(<<"R", "/", "w">>), <<>>, Absent, Absent)>>)),
     NonStrDescription(
         Program(Str(<<"T">>), <<>>, ListOf(<<NonStr>>), ListOf(<<NotAService>>))),
     BytesDescription(
         Program(Bytes(<<" ", "H">>), <<"3">>, ListOf(<<Bytes(<<"k">>), Str(<<"V">>)>>),
                 ListOf(<<Service(Bytes(<<" ">>), <<>>, ListOf(<<Str(<<"V">>)>>), Absent)>>))),
     Program(Bytes(<<" ">>), <<"x">>, ListOf(<<Str(<<"V">>)>>), Absent),
     Program(Str(<<"M">>), <<>>, Absent,
             ListOf(<<Service(Bytes(<<"w">>), <<>>, Absent, Absent)>>))}

LoadDocs ==
    {Doc(ListOf(l)) : l \in SeqsUpTo(LoadEntries, MaxEntries)}
    \cup {Doc(Absent), Doc(Scalar(NotAProgram)), DocInvalid}

File(stem, ext, doc) == [stem |-> stem, ext |-> ext, doc |-> doc]

\* what CONFIG_DIR may hold
Files ==
    {File("default", ".yaml", d) : d \in {DocEmpty, DocA}}
    \cup {File("cil", ".yaml", d) : d \in {DocB, DocInvalid}}
    \cup {File("ilc", ".yaml", DocC), File("notes", ".txt", DocEmpty)}

\* os.listdir: any subset of the files, in any order, one file per name
Listings ==
    {l \in SeqsUpTo(Files, Cardinality({f.stem : f \in Files})) :
        \A i, j \in DOMAIN l : i # j => l[i].stem # l[j].stem}

----------------------------------------------------------------------------
(* Inputs: requests and backend behaviour                                  *)

Texts == {<<"R">>, <<"x">>}
TopKs == (0 - MaxTopK)..MaxTopK
Organizations == {"default", "cil", "zzz"}

Conf(v) == [tag |-> "num", v |-> v]
NoConf == [tag |-> "absent", v |-> 0]
BadConf == [tag |-> "bad", v |-> 0]

Reason(x) == [tag |-> "str", s |-> x]
NoReason == [tag |-> "absent", s |-> ""]
BadReason == [tag |-> "other", s |-> ""]

\* category: "absent" key missing, "null", a list, a number or a string
NullCat == [tag |-> "null", s |-> <<>>]
ListCat == [tag |-> "list", s |-> <<"x">>]      \* ["x"]
EmptyListCat == [tag |-> "list", s |-> <<>>]    \* []

Entry(category, confidence, reasoning) ==
    [tag |-> "dict", category |-> category, confidence |-> confidence,
     reasoning |-> reasoning]

NonDict == [tag |-> "other", category |-> NoStr, confidence |-> NoConf,
            reasoning |-> NoReason]

Reply(best, alternatives) ==
    [tag |-> "dict", best |-> best, alternatives |-> alternatives]

BestChoices ==
    {[EmptyBest EXCEPT !.tag = "absent"], NonDict}
    \cup {Entry(c, NoConf, NoReason) :
            c \in {NoStr, NullCat, ListCat, Str(pH), Str(pV), Str(pX), Str(Unknown)}}
    \cup {Entry(Str(pH), k, r) : k \in {Conf(90), BadConf},
                                  r \in {Reason("because"), BadReason}}

AltEntries ==
    {NonDict, Entry(NullCat, NoConf, NoReason), Entry(Str(pH), NoConf, NoReason),
     Entry(Str(pM), Conf(20), Reason("maybe")), Entry(Str(pX), NoConf, NoReason)}

AltChoices ==
    {Absent, Scalar(NonDict), Scalar(Entry(Str(pM), NoConf, NoReason))}
    \cup {ListOf(l) : l \in SeqsUpTo(AltEntries, MaxAlts)}
    \cup {ListOf(<<Entry(c, NoConf, NoReason),
                     Entry(Str(pM), Conf(20), Reason("maybe"))>>) :
             c \in {EmptyListCat, ListCat, NonStr}}

\* replies whose confidences are numbers outside [0, 1]
OutOfRange ==
    {Reply(Entry(Str(pH), Conf(150), NoReason), Absent),
     Reply(Entry(Str(pH), Conf(90), NoReason),
           ListOf(<<Entry(Str(pM), Conf(0 - 20), NoReason)>>))}

Replies ==
    {Reply(b, a) : b \in BestChoices,
                   a \in {Absent, ListOf(<<Entry(Str(pM), NoConf, NoReason)>>)}}
    \cup {Reply(Entry(Str(pH), NoConf, NoReason), a) : a \in AltChoices}
    \cup OutOfRange
    \cup {NoData}

Failing == {[kind |-> k, data |-> NoData] : k \in {"no_key", "error", "not_json"}}

Backends ==
    Failing \cup {[kind |-> "empty", data |-> NoData]}
    \cup {[kind |-> "json", data |-> d] : d \in Replies}

Chunk(x) == [none |-> FALSE, s |-> x]
NoContent == [none |-> TRUE, s |-> ""]

Streams ==
    {[opens |-> FALSE, chunks |-> <<>>, fails |-> FALSE]}
    \cup {[opens |-> TRUE, chunks |-> c, fails |-> f] :
            c \in SeqsUpTo({NoContent, Chunk(""), Chunk("a"), Chunk("b")}, MaxChunks),
            f \in BOOLEAN}

Histories == {<<[role |-> "user", catalog |-> <<>>, content |-> "hi"]>>}

----------------------------------------------------------------------------
(* The state machine                                                       *)

\* call[t] is the request thread t serves and result[t] how far its handler
\* has run (pc) with the locals it has bound
Threads == 1..MaxThreads

NoCall == [op |-> "none"]
Idle == [pc |-> "idle"]

InitThreads ==
    /\ phase = "loading"
    /\ scanned = 0
    /\ ORG_PROGRAMS = <<>>
    /\ ORG_KEYWORDS = <<>>
    /\ call = [t \in Threads |-> NoCall]
    /\ result = [t \in Threads |-> Idle]

Init == InitThreads /\ listing \in Listings

\* one iteration of `for filename in os.listdir(CONFIG_DIR)`
ScanOrgFile ==
    /\ phase = "loading"
    /\ scanned < Len(listing)
    /\ LET f == listing[scanned + 1] IN
       IF f.ext # ".yaml"
       THEN UNCHANGED <<phase, ORG_PROGRAMS, ORG_KEYWORDS>>
       ELSE \E loaded \in _load_org_file(f.doc) :
                IF loaded.raised
                THEN phase' = "crashed" /\ UNCHANGED <<ORG_PROGRAMS, ORG_KEYWORDS>>
                ELSE /\ ORG_PROGRAMS' =
                            DictSet(ORG_PROGRAMS, f.stem, loaded.programs_by_name)
                     /\ ORG_KEYWORDS' =
                            DictSet(ORG_KEYWORDS, f.stem,
                                    loaded.program_keywords_by_name)
                     /\ UNCHANGED phase
    /\ scanned' = scanned + 1
    /\ UNCHANGED <<listing, call, result>>

\* Mutant: the alias takes the last-loaded tenant, not the first
DefaultAlias_LastLoaded ==
    /\ phase = "loading"
    /\ scanned = Len(listing)
    /\ IF DictHas(ORG_PROGRAMS, "default")
       THEN UNCHANGED <<ORG_PROGRAMS, ORG_KEYWORDS>>
       ELSE IF ORG_PROGRAMS # <<>>
       THEN LET last == DictKeys(ORG_PROGRAMS)[Len(ORG_PROGRAMS)] IN
            /\ ORG_PROGRAMS' =
                   DictSet(ORG_PROGRAMS, "default", DictGet(ORG_PROGRAMS, last))
            /\ ORG_KEYWORDS' =
                   DictSet(ORG_KEYWORDS, "default", DictGet(ORG_KEYWORDS, last))
       ELSE /\ ORG_PROGRAMS' = DictSet(ORG_PROGRAMS, "default", <<>>)
            /\ ORG_KEYWORDS' = DictSet(ORG_KEYWORDS, "default", <<>>)
    /\ phase' = "ready"
    /\ listing' = <<>>
    /\ scanned' = 0
    /\ UNCHANGED <<call, result>>

\* Mutant: the alias copies the registry of the first tenant and starts an
\* empty keyword index
DefaultAlias_ProgramsOnly ==
    /\ phase = "loading"
    /\ scanned = Len(listing)
    /\ IF DictHas(ORG_PROGRAMS, "default")
       THEN UNCHANGED <<ORG_PROGRAMS, ORG_KEYWORDS>>
       ELSE IF ORG_PROGRAMS # <<>>
       THEN LET first == DictKeys(ORG_PROGRAMS)[1] IN
            /\ ORG_PROGRAMS' =
                   DictSet(ORG_PROGRAMS, "default", DictGet(ORG_PROGRAMS, first))
            /\ ORG_KEYWORDS' = DictSet(ORG_KEYWORDS, "default", <<>>)
       ELSE /\ ORG_PROGRAMS' = DictSet(ORG_PROGRAMS, "default", <<>>)
            /\ ORG_KEYWORDS' = DictSet(ORG_KEYWORDS, "default", <<>>)
    /\ phase' = "ready"
    /\ listing' = <<>>
    /\ scanned' = 0
    /\ UNCHANGED <<call, result>>

\* lines 131-138, after the scan; the listing is not kept past the loop
DefaultAlias ==
    /\ phase = "loading"
    /\ scanned = Len(listing)
    /\ IF DictHas(ORG_PROGRAMS, "default")
       THEN UNCHANGED <<ORG_PROGRAMS, ORG_KEYWORDS>>
       ELSE IF ORG_PROGRAMS # <<>>
       THEN LET first == DictKeys(ORG_PROGRAMS)[1] IN
            /\ ORG_PROGRAMS' =
                   DictSet(ORG_PROGRAMS, "default", DictGet(ORG_PROGRAMS, first))
            /\ ORG_KEYWORDS' =
                   DictSet(ORG_KEYWORDS, "default", DictGet(ORG_KEYWORDS, first))
       ELSE /\ ORG_PROGRAMS' = DictSet(ORG_PROGRAMS, "default", <<>>)
            /\ ORG_KEYWORDS' = DictSet(ORG_KEYWORDS, "default", <<>>)
    /\ phase' = "ready"
    /\ listing' = <<>>
    /\ scanned' = 0
    /\ UNCHANGED <<call, result>>

NoBackend == [kind |-> "none", data |-> NoData]
NoKey == [kind |-> "no_key", data |-> NoData]

----------------------------------------------------------------------------
(* Request threads: the handlers one step at a time                        *)
(* The /classify and /chat/stream handlers are synchronous and run in the  *)
(* worker threads of the server: between two steps of one handler the      *)
(* other threads take theirs. A step ends where the handler returns, where *)
(* it starts to wait for the backend, and where its generator yields.      *)

\* the locals of a classify call that has just been entered
Entered(pc, org, backend_calls, path) ==
    [pc |-> pc, org |-> org, backend |-> NoBackend, prompt |-> <<>>,
     data |-> NoData, backend_calls |-> backend_calls, path |-> path,
     response |-> NoPrograms]

\* Mutant: an organization that is not registered gets an empty registry of
\* its own on first use
ClassifyBegin_Registers(t, text, top_k, organization) ==
    /\ phase = "ready"
    /\ result[t].pc = "idle"
    /\ call' = [call EXCEPT ![t] =
           [op |-> "classify", text |-> text, top_k |-> top_k,
            organization |-> organization]]
    /\ result' = [result EXCEPT ![t] =
           Entered(IF OrgGet(ORG_PROGRAMS, organization) = <<>> THEN "done" ELSE "try",
                   organization, 0, <<>>)]
    /\ ORG_PROGRAMS' = IF DictHas(ORG_PROGRAMS, organization) THEN ORG_PROGRAMS
                       ELSE DictSet(ORG_PROGRAMS, organization, <<>>)
    /\ ORG_KEYWORDS' = IF DictHas(ORG_KEYWORDS, organization) THEN ORG_KEYWORDS
                       ELSE DictSet(ORG_KEYWORDS, organization, <<>>)
    /\ UNCHANGED <<phase, listing, scanned>>

\* Mutant: the empty-registry test comes after the call to the backend
ClassifyBegin_LlmFirst(t, text, top_k, organization) ==
    /\ phase = "ready"
    /\ result[t].pc = "idle"
    /\ LET org == ResolveOrg(organization)
           programs == OrgGet(ORG_PROGRAMS, org)
           categories == DictKeys(programs)
       IN  /\ call' = [call EXCEPT ![t] =
                  [op |-> "classify", text |-> text, top_k |-> top_k,
                   organization |-> organization]]
           /\ result' = [result EXCEPT ![t] =
                  IF categories = <<>>
                  THEN Entered("done", org, 1, <<"llm">>)
                  ELSE Entered("try", org, 0, <<>>)]
    /\ UNCHANGED <<phase, listing, scanned, ORG_PROGRAMS, ORG_KEYWORDS>>

\* classify, lines 452-465: the tenant is resolved, an empty registry returns
ClassifyBegin(t, text, top_k, organization) ==
    /\ phase = "ready"
    /\ result[t].pc = "idle"
    /\ LET org == ResolveOrg(organization)
           categories == DictKeys(OrgGet(ORG_PROGRAMS, org))
       IN  /\ call' = [call EXCEPT ![t] =
                  [op |-> "classify", text |-> text, top_k |-> top_k,
                   organization |-> organization]]
           /\ result' = [result EXCEPT ![t] =
                  Entered(IF categories = <<>> THEN "done" ELSE "try", org, 0, <<>>)]
    /\ UNCHANGED <<phase, listing, scanned, ORG_PROGRAMS, ORG_KEYWORDS>>

\* classify, line 468, and _call_llm, lines 286-343 up to the wait: without a
\* key, or when the catalog cannot be rendered, _call_llm raises; else the
\* request leaves with the prompt and the thread waits in create()
CallLlm(t, backends) ==
    /\ phase = "ready"
    /\ result[t].pc = "try"
    /\ \E has_key \in {b.kind # "no_key" : b \in backends} :
          LET r == result[t]
              programs == OrgGet(ORG_PROGRAMS, r.org)
              catalog == _programs_for_prompt(programs, MaxServicesEach)
          IN  result' = [result EXCEPT ![t] =
                  IF ~has_key
                  THEN [r EXCEPT !.pc = "except", !.backend = NoKey,
                                 !.path = Append(@, "llm")]
                  ELSE IF catalog.raised
                  THEN [r EXCEPT !.pc = "except", !.path = Append(@, "llm")]
                  ELSE [r EXCEPT !.pc = "wait", !.prompt = catalog.lines,
                                 !.backend_calls = @ + 1,
                                 !.path = Append(@, "llm")]]
    /\ UNCHANGED <<phase, listing, scanned, ORG_PROGRAMS, ORG_KEYWORDS, call>>

\* _call_llm, line 335: the wait in client.chat.completions.create ends, with
\* a reply or with an exception; what the backend did with this request is
\* one of backends
CreateReturns(t, backends) ==
    /\ phase = "ready"
    /\ result[t].pc = "wait"
    /\ \E backend \in {b \in backends : b.kind # "no_key"} :
          result' = [result EXCEPT ![t] =
              [@ EXCEPT !.pc = IF backend.kind = "error" THEN "except" ELSE "loads",
                        !.backend = backend]]
    /\ UNCHANGED <<phase, listing, scanned, ORG_PROGRAMS, ORG_KEYWORDS, call>>

\* _call_llm, lines 345-346: the content of the reply is parsed
JsonLoads(t) ==
    /\ phase = "ready"
    /\ result[t].pc = "loads"
    /\ LET got == json_loads(result[t].backend)
       IN  result' = [result EXCEPT ![t] =
               [@ EXCEPT !.pc = IF got.raised THEN "except" ELSE "parse",
                         !.data = got.data]]
    /\ UNCHANGED <<phase, listing, scanned, ORG_PROGRAMS, ORG_KEYWORDS, call>>

\* classify, lines 469-496: the reply becomes the result, or raises
ParseReply(t) ==
    /\ phase = "ready"
    /\ result[t].pc = "parse"
    /\ LET c == call[t]
           r == result[t]
           programs == OrgGet(ORG_PROGRAMS, r.org)
           parsed == llm_response(r.data, c.top_k, programs, DictKeys(programs))
       IN  result' = [result EXCEPT ![t] =
               IF parsed.raised THEN [r EXCEPT !.pc = "except"]
               ELSE [r EXCEPT !.pc = "done", !.response = parsed.response]]
    /\ UNCHANGED <<phase, listing, scanned, ORG_PROGRAMS, ORG_KEYWORDS, call>>

\* Mutant: the handler tries the backend a second time before it falls back
KeywordGuess_Retry(t) ==
    /\ phase = "ready"
    /\ result[t].pc = "except"
    /\ LET c == call[t]
           r == result[t]
           got == _keyword_guess(c.text, c.top_k, OrgGet(ORG_PROGRAMS, r.org),
                                 OrgGet(ORG_KEYWORDS, r.org))
       IN  result' = [result EXCEPT ![t] =
               IF Len(r.path) = 1 THEN [r EXCEPT !.pc = "try"]
               ELSE [r EXCEPT !.pc = IF got.raised THEN "failed" ELSE "done",
                              !.path = Append(@, "keyword"),
                              !.response = got.response]]
    /\ UNCHANGED <<phase, listing, scanned, ORG_PROGRAMS, ORG_KEYWORDS, call>>

\* classify, lines 498-500: the except branch returns what _keyword_guess
\* returns; what _keyword_guess raises leaves classify
KeywordGuess(t) ==
    /\ phase = "ready"
    /\ result[t].pc = "except"
    /\ LET c == call[t]
           r == result[t]
           got == _keyword_guess(c.text, c.top_k, OrgGet(ORG_PROGRAMS, r.org),
                                 OrgGet(ORG_KEYWORDS, r.org))
       IN  result' = [result EXCEPT ![t] =
               [r EXCEPT !.pc = IF got.raised THEN "failed" ELSE "done",
                         !.path = Append(@, "keyword"),
                         !.response = got.response]]
    /\ UNCHANGED <<phase, listing, scanned, ORG_PROGRAMS, ORG_KEYWORDS, call>>

\* stream_chat(...) makes a generator: none of its body has run yet. stream
\* is what the backend does with the request of this generator: opens
\* (create returns), the chunks it delivers, and fails (the iteration raises
\* after the last of them)
StreamChatCreate(t, messages, organization, stream) ==
    /\ phase = "ready"
    /\ result[t].pc = "idle"
    /\ call' = [call EXCEPT ![t] =
           [op |-> "stream_chat", messages |-> messages,
            organization |-> organization, stream |-> stream]]
    /\ result' = [result EXCEPT ![t] =
           [pc |-> "created", org |-> "", sent |-> <<>>, yielded |-> <<>>, pos |-> 0]]
    /\ UNCHANGED <<phase, listing, scanned, ORG_PROGRAMS, ORG_KEYWORDS>>

\* next() on the generator. The first one runs lines 401-437 up to the wait
\* in create(): the prompt is built (or raises) and the request leaves; a
\* later one resumes the loop after its yield
StreamNext(t) ==
    /\ phase = "ready"
    /\ result[t].pc \in {"created", "open"}
    /\ LET c == call[t]
           r == result[t]
           org == ResolveOrg(c.organization)
           catalog == _programs_for_prompt(OrgGet(ORG_PROGRAMS, org), MaxServicesEach)
           system == [role |-> "system", catalog |-> catalog.lines, content |-> ""]
       IN  result' = [result EXCEPT ![t] =
               IF r.pc = "open" THEN [r EXCEPT !.pc = "iter"]
               ELSE IF catalog.raised THEN [r EXCEPT !.pc = "failed", !.org = org]
               ELSE [r EXCEPT !.pc = "create", !.org = org,
                              !.sent = <<system>> \o c.messages]]
    /\ UNCHANGED <<phase, listing, scanned, ORG_PROGRAMS, ORG_KEYWORDS, call>>

\* lines 431-437: the wait in create() ends, with the stream or an exception
StreamCreateReturns(t) ==
    /\ phase = "ready"
    /\ result[t].pc = "create"
    /\ result' = [result EXCEPT ![t] =
           [@ EXCEPT !.pc = IF call[t].stream.opens THEN "iter" ELSE "failed"]]
    /\ UNCHANGED <<phase, listing, scanned, ORG_PROGRAMS, ORG_KEYWORDS, call>>

\* lines 439-443, one iteration of `for chunk in resp`: the wait for the next
\* chunk ends with a chunk, with the end of the stream or with an exception;
\* a chunk with content is yielded and the generator is suspended there
StreamChunk(t) ==
    /\ phase = "ready"
    /\ result[t].pc = "iter"
    /\ LET r == result[t]
           stream == call[t].stream
       IN  result' = [result EXCEPT ![t] =
               IF r.pos = Len(stream.chunks)
               THEN [r EXCEPT !.pc = IF stream.fails THEN "failed" ELSE "ended"]
               ELSE IF ContentTruthy(stream.chunks[r.pos + 1])
               THEN [r EXCEPT !.pc = "open", !.pos = @ + 1,
                              !.yielded = Append(@, stream.chunks[r.pos + 1].s)]
               ELSE [r EXCEPT !.pos = @ + 1]]
    /\ UNCHANGED <<phase, listing, scanned, ORG_PROGRAMS, ORG_KEYWORDS, call>>

\* the consumer stops pulling: the generator is closed where it is suspended
StreamClose(t) ==
    /\ phase = "ready"
    /\ result[t].pc \in {"created", "open"}
    /\ result' = [result EXCEPT ![t] = [@ EXCEPT !.pc = "closed"]]
    /\ UNCHANGED <<phase, listing, scanned, ORG_PROGRAMS, ORG_KEYWORDS, call>>

\* the handler has returned or raised, or its generator is exhausted, failed
\* or closed: the thread serves the next request
ThreadReturn(t) ==
    /\ phase = "ready"
    /\ result[t].pc \in {"done", "ended", "failed", "closed"}
    /\ call' = [call EXCEPT ![t] = NoCall]
    /\ result' = [result EXCEPT ![t] = Idle]
    /\ UNCHANGED <<phase, listing, scanned, ORG_PROGRAMS, ORG_KEYWORDS>>

\* a tenant whose only service holds a contact that is no mapping: rendering
\* its catalog raises; its second program has a description that is a number
DocBadContact ==
    Doc(ListOf(<<
        Program(Str(pV), <<"v">>, ListOf(<<Str(<<"r">>)>>),
            ListOf(<<Service(Str(<<"W">>), <<>>, Absent,
                        ListOf(<<[Contact(<<>>, <<>>, <<>>) EXCEPT !.tag = "other"]>>))>>)),
        NonStrDescription(Program(Str(pT), <<>>, Absent, Absent))
    >>))

ServeListings ==
    {<<File("default", ".yaml", DocA), File("cil", ".yaml", DocBadContact),
       File("ilc", ".yaml", DocEmpty)>>}

ServeOrganizations == {"cil", "ilc", "zzz"}

ServeBackends ==
    {[kind |-> k, data |-> NoData] : k \in {"no_key", "error", "empty"}}
    \cup {[kind |-> "json", data |-> d] : d \in
            {Reply(Entry(Str(pH), BadConf, NoReason), Absent),
             Reply(Entry(Str(pH), Conf(90), Reason("because")),
                   ListOf(<<Entry(Str(pM), NoConf, NoReason)>>))}}

ServeStreams ==
    {[opens |-> FALSE, chunks |-> <<>>, fails |-> FALSE],
     [opens |-> TRUE, chunks |-> <<Chunk("a"), Chunk("b")>>, fails |-> TRUE]}

InitServe == InitThreads /\ listing \in ServeListings

ClassifyStep(t, texts, top_ks, organizations, backends) ==
    \/ \E text \in texts, top_k \in top_ks, organization \in organizations :
           ClassifyBegin(t, text, top_k, organization)
    \/ CallLlm(t, backends)
    \/ CreateReturns(t, backends)
    \/ JsonLoads(t)
    \/ ParseReply(t)
    \/ KeywordGuess(t)

StreamStep(t, streams, histories, organizations) ==
    \/ \E messages \in histories, organization \in organizations, stream \in streams :
           StreamChatCreate(t, messages, organization, stream)
    \/ StreamNext(t)
    \/ StreamCreateReturns(t)
    \/ StreamChunk(t)
    \/ StreamClose(t)

NextServe ==
    \/ ScanOrgFile
    \/ DefaultAlias
    \/ \E t \in Threads :
          \/ ClassifyStep(t, {<<"R">>}, {1, 2}, ServeOrganizations, ServeBackends)
          \/ StreamStep(t, ServeStreams, Histories, {"zzz"})
          \/ ThreadReturn(t)

SpecServe == InitServe /\ [][NextServe]_vars

\* One consumer of one stream_chat generator
StreamHistories ==
    Histories \cup
    {<<[role |-> "user", catalog |-> <<>>, content |-> "hi"],
       [role |-> "assistant", catalog |-> <<>>, content |-> "yo"],
       [role |-> "user", catalog |-> <<>>, content |-> "hm"]>>}

InitStream ==
    /\ InitThreads
    /\ listing = <<File("default", ".yaml", DocA), File("cil", ".yaml", DocB)>>

NextStream ==
    \/ ScanOrgFile
    \/ DefaultAlias
    \/ StreamStep(1, Streams, StreamHistories, {"cil", "zzz"})
    \/ ThreadReturn(1)

SpecStream == InitStream /\ [][NextStream]_vars

\* One request thread, every listing of CONFIG_DIR, every request and every
\* behaviour of the backend
Next ==
    \/ ScanOrgFile
    \/ DefaultAlias
    \/ ClassifyStep(1, Texts, TopKs, Organizations, Backends)
    \/ StreamStep(1, Streams, Histories, Organizations)
    \/ ThreadReturn(1)

Spec == Init /\ [][Next]_vars

\* The keyword scorer on its own: one tenant loaded from a scorer document,
\* and classify calls whose text-generation call fails
InitScorer ==
    /\ InitThreads
    /\ listing \in {<<File("default", ".yaml", d)>> : d \in ScorerDocs}

NextScorer ==
    \/ ScanOrgFile
    \/ DefaultAlias
    \/ \E text \in ScorerTexts, top_k \in TopKs :
           ClassifyBegin(1, text, top_k, "default")
    \/ CallLlm(1, Failing)
    \/ CreateReturns(1, Failing)
    \/ JsonLoads(1)
    \/ KeywordGuess(1)
    \/ ThreadReturn(1)

SpecScorer == InitScorer /\ [][NextScorer]_vars

\* The loader on its own: one tenant file holding a loader document
InitLoad ==
    /\ InitThreads
    /\ listing \in {<<File("cil", ".yaml", d)>> : d \in LoadDocs}

NextLoad == ScanOrgFile \/ DefaultAlias

SpecLoad == InitLoad /\ [][NextLoad]_vars

----------------------------------------------------------------------------
(* The catalog on its own: programs with 0 .. MaxServices services are     *)
(* loaded, then rendered with every cap or put into a classification prompt *)

Digits == <<"0", "1", "2", "3", "4", "5", "6", "7", "8", "9">>

\* service number i: every second one has a phone, the others declare keywords
\* and a contact
ServiceNo(i) ==
    IF i % 2 = 1
    THEN Service(Str(<<"s", Digits[i + 1]>>), <<"5">>, Absent, Absent)
    ELSE Service(Str(<<"s", Digits[i + 1]>>), <<>>, ListOf(<<Str(<<"k">>)>>),
                 ListOf(<<Contact(<<"n">>, <<"e">>, <<>>)>>))

ServicesUpTo(n) == IF n = 0 THEN Absent ELSE ListOf([i \in 1..n |-> ServiceNo(i)])

CatalogDocs ==
    {Doc(ListOf(<<Program(Str(pH), <<"h">>, ListOf(<<Str(<<"r">>)>>), ServicesUpTo(n)),
                  Program(Str(pM), <<>>, Absent, ServicesUpTo(m))>>)) :
        n \in 0..MaxServices, m \in {0, 2}}

CatalogListings ==
    {<<File("default", ".yaml", d), File("cil", ".yaml", DocB)>> : d \in CatalogDocs}

CatalogOrganizations == {"default", "cil"}

CatalogBackends ==
    {[kind |-> "no_key", data |-> NoData],
     [kind |-> "json",
      data |-> Reply(Entry(Str(pH), Conf(90), Reason("because")), Absent)]}

InitCatalog == InitThreads /\ listing \in CatalogListings

\* _programs_for_prompt(programs, max_services_each) on a loaded registry
RenderCatalog(t) ==
    \E organization \in CatalogOrganizations, max_services_each \in 0..MaxServices :
        /\ phase = "ready"
        /\ result[t].pc = "idle"
        /\ call' = [call EXCEPT ![t] =
               [op |-> "_programs_for_prompt", organization |-> organization,
                max_services_each |-> max_services_each]]
        /\ result' = [result EXCEPT ![t] =
               LET catalog == _programs_for_prompt(
                                  OrgGet(ORG_PROGRAMS, organization), max_services_each)
               IN  [pc |-> "done", raised |-> catalog.raised, lines |-> catalog.lines]]
        /\ UNCHANGED <<phase, listing, scanned, ORG_PROGRAMS, ORG_KEYWORDS>>

NextCatalog ==
    \/ ScanOrgFile
    \/ DefaultAlias
    \/ RenderCatalog(1)
    \/ ClassifyStep(1, {<<"x">>}, {1}, CatalogOrganizations, CatalogBackends)
    \/ ThreadReturn(1)

SpecCatalog == InitCatalog /\ [][NextCatalog]_vars

----------------------------------------------------------------------------
(* Appointment lookup on its own: calls of get_appointments_by_date and    *)
(* get_matched_appointments against accounts that answer or fail. A call   *)
(* waits for the credentials of each account, for its calendar list and    *)
(* for the events of each calendar; a step ends where it waits or returns. *)
(* What the files and the calendar service are going to answer to the      *)
(* requests of a call is held with the call.                               *)

CalendarIds == {"c1", "c2"}

aRW == Attendee(Str(<<"R", " ", "W">>), Str(<<"e">>))
aM == Attendee(NoStr, Str(<<"m">>))
aNull == Attendee(NullStr, Str(<<"R", " ", "W">>))     \* displayName: null
a5 == Attendee(NonStr, Str(<<"e">>))                \* displayName: 5
aE5 == Attendee(NoStr, NonStr)                      \* email: 5

E1 == Event("e1", <<"R">>, DateTime(1, 10), <<aRW>>)
E2 == Event("e2", <<>>, AllDay(1), <<>>)
E3 == Event("e3", <<"R">>, NoStart, <<aRW>>)
E4 == Event("e4", <<"W">>, DateTime(2, 9), <<aM, NotAnAttendee, aRW>>)
E5 == Event("e5", <<"R">>, DateTime(1, 9), <<aM, aRW>>)
E6 == Event("e6", <<"R">>, DateTime(1, 11), <<aNull, a5>>)
E7 == Event("e7", <<"R">>, DateTime(1, 8), <<aNull, aE5>>)

AccountPaths == <<"a1.json", "a2.json", "a3.json", "a4.json">>

Account(creds_ok, calendar_list, c1, c2) ==
    [file |-> "", creds_ok |-> creds_ok, calendar_list |-> calendar_list,
     events |-> [c \in CalendarIds |-> IF c = "c1" THEN c1 ELSE c2]]

\* an account without usable credentials; one that cannot list its calendars;
\* one whose first calendar cannot be read; one whose calendars hold an event
\* without start and an attendee that is no mapping; one without failure;
\* one with attendees whose name is no string
AccountKinds ==
    {Account(FALSE, Fails, Fails, Fails),
     Account(TRUE, Fails, Items(<<E1>>), Fails),
     Account(TRUE, Items(<<"c1", "c2">>), Fails, Items(<<E1>>)),
     Account(TRUE, Items(<<"c1", "c2">>), Items(<<E5, E3, E1>>), Items(<<E2, E4, E1>>)),
     Account(TRUE, Items(<<"c2">>), Items(<<E5>>), Items(<<>>)),
     Account(TRUE, Items(<<"c2", "c1">>), Items(<<E1, E6>>), Items(<<E7>>))}

\* the accounts behind a list of paths: the i-th path is AccountPaths[i]
AccountLists ==
    {[i \in DOMAIN l |-> [l[i] EXCEPT !.file = AccountPaths[i]]] :
        l \in SeqsUpTo(AccountKinds, MaxAccounts)}

ServiceAccountFiles ==
    {[form |-> "list", files |-> l] : l \in AccountLists}
    \cup {[form |-> "str", files |-> l] : l \in {m \in AccountLists : Len(m) = 1}}
    \cup {[form |-> "txt", files |-> l] : l \in {m \in AccountLists : Len(m) <= 1}}
    \cup {[form |-> "none", files |-> <<>>], [form |-> "other", files |-> <<>>]}

EnvAccounts ==
    {[set |-> FALSE, files |-> <<>>],
     [set |-> TRUE, files |-> <<>>],
     [set |-> TRUE,
      files |-> <<[Account(TRUE, Items(<<"c2">>), Items(<<E5>>), Items(<<E1>>))
                      EXCEPT !.file = "env.json"]>>]}

ConfiguredCalendars == {<<>>, <<"c1">>, <<"c2", "c1">>}

Dates == {[valid |-> TRUE, date |-> 1], [valid |-> TRUE, date |-> 2],
          [valid |-> FALSE, date |-> 0]}

Customers == {[first_name |-> <<"R">>, last_name |-> <<"w">>],
              [first_name |-> <<"m">>, last_name |-> <<>>]}

ServiceNamesAsked == {<<"r">>, <<"x">>}

InitAppointments ==
    /\ phase = "ready"
    /\ listing = <<>>
    /\ scanned = 0
    /\ ORG_PROGRAMS = <<>>
    /\ ORG_KEYWORDS = <<>>
    /\ call = [t \in Threads |-> NoCall]
    /\ result = [t \in Threads |-> Idle]

\* the account files a call scans: lines 162-175 and 356-369
account_files(c) == ResolveAccounts(c.service_account_file, c.env)

\* the locals of a scan: account is the place in account_files of the account
\* whose answer the call waits for, polled the number of its calendars that
\* have answered
Scanning(pc, account, calendars_to_poll, polled, all_appointments) ==
    [pc |-> pc, account |-> account, calendars_to_poll |-> calendars_to_poll,
     polled |-> polled, all_appointments |-> all_appointments, value |-> <<>>]

Returned_List(value) == [Scanning("done", 0, <<>>, 0, <<>>) EXCEPT !.value = value]

\* the lines after `for account_file in account_files`: the sort of lines
\* 309-313, the matching of lines 486-523
AfterScan(c, all_appointments) ==
    IF c.op = "get_appointments_by_date" THEN SortByTime(all_appointments)
    ELSE Matched(all_appointments, c.first_name, c.last_name, c.start_time, c.service)

\* the next iteration of `for account_file in account_files`, which waits for
\* the credentials of the next account, or the end of the loop and the return
NextAccount(c, r) ==
    IF r.account < Len(account_files(c))
    THEN Scanning("creds", r.account + 1, <<>>, 0, r.all_appointments)
    ELSE Returned_List(AfterScan(c, r.all_appointments))

\* the next iteration of `for calendar_id in calendars_to_poll`, which waits
\* for the events of the next calendar, or the next account
NextCalendar(c, r) ==
    IF r.polled < Len(r.calendars_to_poll) THEN [r EXCEPT !.pc = "events"]
    ELSE NextAccount(c, r)

\* a call is entered, up to its first wait: without an account file it
\* returns []; a date that is no date, or account files without len(), raise
\* before the loop into the outer except, which returns []
EnterScan(c, date) ==
    IF c.service_account_file.form # "other" /\ account_files(c) = <<>>
    THEN Returned_List(<<>>)
    ELSE IF ~date.valid \/ c.service_account_file.form = "other"
    THEN Returned_List(<<>>)
    ELSE Scanning("creds", 1, <<>>, 0, <<>>)

\* get_appointments_by_date, lines 160-203; target_date is [valid, date]
GetAppointmentsByDate(t) ==
    \E target_date \in Dates, service_account_file \in ServiceAccountFiles,
       env \in EnvAccounts, calendar_ids \in ConfiguredCalendars :
        LET c == [op |-> "get_appointments_by_date", target_date |-> target_date,
                  service_account_file |-> service_account_file, env |-> env,
                  calendar_ids |-> calendar_ids]
        IN  /\ phase = "ready"
            /\ result[t].pc = "idle"
            /\ call' = [call EXCEPT ![t] = c]
            /\ result' = [result EXCEPT ![t] = EnterScan(c, target_date)]
            /\ UNCHANGED <<phase, listing, scanned, ORG_PROGRAMS, ORG_KEYWORDS>>

\* get_matched_appointments, lines 354-396; start_time is [valid, date]
GetMatchedAppointments(t) ==
    \E customer \in Customers, start_time \in Dates, service \in ServiceNamesAsked,
       service_account_file \in ServiceAccountFiles, env \in EnvAccounts,
       calendar_ids \in ConfiguredCalendars :
        LET c == [op |-> "get_matched_appointments",
                  first_name |-> customer.first_name,
                  last_name |-> customer.last_name,
                  start_time |-> start_time, service |-> service,
                  service_account_file |-> service_account_file, env |-> env,
                  calendar_ids |-> calendar_ids]
        IN  /\ phase = "ready"
            /\ result[t].pc = "idle"
            /\ call' = [call EXCEPT ![t] = c]
            /\ result' = [result EXCEPT ![t] = EnterScan(c, start_time)]
            /\ UNCHANGED <<phase, listing, scanned, ORG_PROGRAMS, ORG_KEYWORDS>>

\* lines 206-232: Credentials.from_service_account_file and build return or
\* raise; with configured calendars the first of them is polled, else the
\* call waits for the calendar list
CredentialsReturn(t) ==
    /\ phase = "ready"
    /\ result[t].pc = "creds"
    /\ LET c == call[t]
           r == result[t]
           account == account_files(c)[r.account]
       IN  result' = [result EXCEPT ![t] =
               IF ~account.creds_ok THEN NextAccount(c, r)
               ELSE IF c.calendar_ids # <<>>
               THEN [r EXCEPT !.pc = "events", !.calendars_to_poll = c.calendar_ids]
               ELSE [r EXCEPT !.pc = "list"]]
    /\ UNCHANGED <<phase, listing, scanned, ORG_PROGRAMS, ORG_KEYWORDS, call>>

\* lines 215-228: calendarList().list().execute() returns or raises; a
\* failure skips the account
CalendarListReturns(t) ==
    /\ phase = "ready"
    /\ result[t].pc = "list"
    /\ LET c == call[t]
           r == result[t]
           account == account_files(c)[r.account]
       IN  result' = [result EXCEPT ![t] =
               IF account.calendar_list.fails THEN NextAccount(c, r)
               ELSE NextCalendar(c,
                        [r EXCEPT !.calendars_to_poll = account.calendar_list.items])]
    /\ UNCHANGED <<phase, listing, scanned, ORG_PROGRAMS, ORG_KEYWORDS, call>>

\* Mutant: no try around one calendar, its failure ends the scan of the account
EventsReturn_Aborting(t) ==
    /\ phase = "ready"
    /\ result[t].pc = "events"
    /\ LET c == call[t]
           r == result[t]
           account == account_files(c)[r.account]
           calendar_id == r.calendars_to_poll[r.polled + 1]
           events_result == account.events[calendar_id]
           read == EventLoop(events_result.items, calendar_id, account.file,
                             c.op = "get_appointments_by_date",
                             [raised |-> FALSE, all_appointments |-> r.all_appointments])
       IN  result' = [result EXCEPT ![t] =
               IF events_result.fails THEN NextAccount(c, r)
               ELSE IF read.raised
               THEN NextAccount(c, [r EXCEPT !.all_appointments = read.all_appointments])
               ELSE NextCalendar(c,
                        [r EXCEPT !.polled = @ + 1,
                                  !.all_appointments = read.all_appointments])]
    /\ UNCHANGED <<phase, listing, scanned, ORG_PROGRAMS, ORG_KEYWORDS, call>>

\* lines 236-304: events().list().execute() returns or raises for the next
\* calendar of the account and its events are read
EventsReturn(t) ==
    /\ phase = "ready"
    /\ result[t].pc = "events"
    /\ LET c == call[t]
           r == result[t]
           account == account_files(c)[r.account]
           calendar_id == r.calendars_to_poll[r.polled + 1]
       IN  result' = [result EXCEPT ![t] =
               NextCalendar(c,
                   [r EXCEPT !.polled = @ + 1,
                             !.all_appointments =
                                 PollCalendar(account.events[calendar_id], calendar_id,
                                     account.file, c.op = "get_appointments_by_date",
                                     r.all_appointments)])]
    /\ UNCHANGED <<phase, listing, scanned, ORG_PROGRAMS, ORG_KEYWORDS, call>>

NextAppointments ==
    \/ GetAppointmentsByDate(1)
    \/ GetMatchedAppointments(1)
    \/ CredentialsReturn(1)
    \/ CalendarListReturns(1)
    \/ EventsReturn(1)
    \/ ThreadReturn(1)

SpecAppointments == InitAppointments /\ [][NextAppointments]_vars

----------------------------------------------------------------------------
(* Properties                                                              *)

\* thread t has left classify: it returned (done) or raised (failed)
IsClassify(t) == call[t].op = "classify" /\ result[t].pc \in {"done", "failed"}

IsStream(t) == call[t].op = "stream_chat"

\* classify has returned a result to thread t
Returned(t) == call[t].op = "classify" /\ result[t].pc = "done"

\* classify has returned to thread t what the keyword scorer gave
OnKeywordPath(t) == Returned(t) /\ result[t].path = <<"llm", "keyword">>

\* some program of the registry has a description that is neither str nor
\* bytes (a number, a list, a mapping)
HasNonStrDescription(registry) ==
    \E i \in DOMAIN registry : registry[i].v.description.tag \notin {"str", "bytes"}

Registered(o) == \E i \in DOMAIN ORG_PROGRAMS : ORG_PROGRAMS[i].k = o

\* the tenant a request is meant to be answered from
TenantKey(t) == IF Registered(call[t].organization) THEN call[t].organization ELSE "default"
TenantRegistry(t) == DictGet(ORG_PROGRAMS, TenantKey(t))
TenantKeywords(t) == DictGet(ORG_KEYWORDS, TenantKey(t))

\* the names of the programs as a result gives them: a name that is bytes
\* reads as the str of its characters
ProgramNames(registry) == {KeyText(registry[i].k) : i \in DOMAIN registry}

\* the descriptions the registry holds for a category: that of every program
\* of that name, "" when no program is stored under that str
HeldDescriptions(registry, category) ==
    {Some(registry[i].v.description.s) :
        i \in {j \in DOMAIN registry : KeyText(registry[j].k) = category}}
    \cup (IF DictHas(registry, category) THEN {} ELSE {Some(<<>>)})

BackendFailed(t) == result[t].backend.kind \in {"no_key", "error", "not_json"}

\* a reply that json.loads accepts and whose shape or types are wrong
ReplyMisshaped(t) ==
    /\ result[t].backend.kind = "json"
    /\ LET data == result[t].backend.data IN
       \/ data.tag # "dict"
       \/ data.best.tag = "other"
       \/ /\ data.best.tag = "dict"
          /\ \/ data.best.category.tag \in {"null", "list"}
             \/ data.best.confidence.tag = "bad"
             \/ data.best.reasoning.tag = "other"

Alternatives(t) == result[t].response.alternatives
Best(t) == result[t].response.best

(* C1 as claimed: classify never raises; with an empty registry, a failed   *)
(* backend call or a misshaped reply it returns the empty-registry result   *)
(* or the keyword scorer's result for the same text, top_k and tenant.      *)
C1_AsClaimed ==
    \A t \in Threads :
        IsClassify(t) =>
            /\ result[t].pc = "done"
            /\ (TenantRegistry(t) = <<>> \/ BackendFailed(t) \/ ReplyMisshaped(t)) =>
                   /\ result[t].response.used_fallback
                   /\ result[t].response =
                          IF TenantRegistry(t) = <<>> THEN NoPrograms
                          ELSE _keyword_guess(call[t].text, call[t].top_k,
                                              TenantRegistry(t),
                                              TenantKeywords(t)).response

SomeKeywordOccurs(t) ==
    \E i \in DOMAIN TenantRegistry(t) :
        \E j \in DOMAIN TenantRegistry(t)[i].v.keywords :
            contains(TenantRegistry(t)[i].v.keywords[j], lower(call[t].text))

(* C2 as claimed: when classify returns after a failed backend call on a    *)
(* non-empty registry, the result has used_fallback and a confidence of 0.6 *)
(* if some keyword of some program occurs in the text (the count of section *)
(* 4.2, which counts an empty keyword), else 0.35.                          *)
C2_AsClaimed ==
    \A t \in Threads :
        (Returned(t) /\ BackendFailed(t) /\ TenantRegistry(t) # <<>>) =>
            /\ result[t].response.used_fallback
            /\ Best(t).confidence = IF SomeKeywordOccurs(t) THEN 60 ELSE 35

(* C3 as claimed: with a non-empty registry the best.category of a result   *)
(* is a program of that registry whatever the backend does, and "Unknown"   *)
(* only with an empty registry.                                             *)
C3_AsClaimed ==
    \A t \in Threads :
        Returned(t) =>
            /\ TenantRegistry(t) # <<>> => Best(t).category \in ProgramNames(TenantRegistry(t))
            /\ Best(t).category = Unknown => TenantRegistry(t) = <<>>

(* C3 amended: whenever classify returns a result, with a non-empty         *)
(* registry best.category is a program of that registry when the keyword    *)
(* scorer answered or the reply gave no best.category; when the reply was   *)
(* accepted and gave a best.category, the result carries that string,       *)
(* registered or not ("Unknown" included). With an empty registry           *)
(* best.category is "Unknown".                                              *)
C3_BestCategory ==
    \A t \in Threads :
        Returned(t) =>
            LET replied == /\ ~result[t].response.used_fallback
                           /\ result[t].backend.data.best.tag = "dict"
                           /\ result[t].backend.data.best.category.tag = "str"
            IN  /\ TenantRegistry(t) = <<>> => Best(t).category = Unknown
                /\ (TenantRegistry(t) # <<>> /\ ~replied) =>
                       Best(t).category \in ProgramNames(TenantRegistry(t))
                /\ (TenantRegistry(t) # <<>> /\ replied) =>
                       Best(t).category = result[t].backend.data.best.category.s

C3_Witness ==
    \E t \in Threads :
        /\ Returned(t)
        /\ TenantRegistry(t) # <<>>
        /\ ~result[t].response.used_fallback
        /\ Best(t).category = Unknown

(* C4 as claimed: for every integer top_k, on both paths, there are at most *)
(* max(0, top_k - 1) alternatives.                                          *)
C4_AsClaimed ==
    \A t \in Threads :
        IsClassify(t) => Len(Alternatives(t)) <= Max(0, call[t].top_k - 1)

(* C5 as claimed: no alternative has the category of best, on both paths.   *)
C5_AsClaimed ==
    \A t \in Threads :
        IsClassify(t) => \A i \in DOMAIN Alternatives(t) : Alternatives(t)[i].category # Best(t).category

(* C6: every alternative's category is a program of the registry of the     *)
(* resolved tenant, on both paths and for any reply.                        *)
C6_AlternativesInRegistry ==
    \A t \in Threads :
        IsClassify(t) =>
            \A i \in DOMAIN Alternatives(t) :
                Alternatives(t)[i].category \in ProgramNames(TenantRegistry(t))

C6_Witness ==
    \E t \in Threads :
        /\ IsClassify(t)
        /\ ~result[t].response.used_fallback
        /\ Alternatives(t) # <<>>
        /\ result[t].backend.data.alternatives.tag = "list"
        /\ \E i \in DOMAIN result[t].backend.data.alternatives.items :
              LET o == result[t].backend.data.alternatives.items[i] IN
              /\ i <= call[t].top_k - 1
              /\ o.tag = "dict"
              /\ o.category.tag = "str"
              /\ o.category.s \notin ProgramNames(TenantRegistry(t))

\* the catalog of the tenant the request of thread t is meant for
TenantCatalog(t) == _programs_for_prompt(TenantRegistry(t), MaxServicesEach)

(* C7: a call with an unregistered organization key is answered from the    *)
(* registry of "default" and a call with a registered key from that         *)
(* tenant's registry: the prompt that leaves for the backend is the catalog *)
(* of that registry, the empty-registry result is returned exactly when     *)
(* that registry is empty, the best option and every alternative of a       *)
(* result carry the description that registry holds for their category, a   *)
(* result of the keyword scorer is the one computed on that registry, and a *)
(* stream sends the catalog of that registry. The key raises nothing: the   *)
(* only error of a classify call is the one the keyword scorer raises on    *)
(* that registry (a description that is neither str nor bytes), the only    *)
(* errors of a stream are that this catalog cannot be rendered or that the  *)
(* backend fails, with a registered and with an unregistered key alike.     *)
C7_TenantResolution ==
    \A t \in Threads :
        /\ (call[t].op = "classify" /\ result[t].pc # "idle" /\ result[t].backend_calls = 1) =>
              result[t].prompt = TenantCatalog(t).lines
        /\ Returned(t) =>
              /\ (result[t].response = NoPrograms) <=> (TenantRegistry(t) = <<>>)
              /\ TenantRegistry(t) = <<>> => result[t].backend_calls = 0
              /\ TenantRegistry(t) # <<>> =>
                     /\ Best(t).description \in
                            HeldDescriptions(TenantRegistry(t), Best(t).category)
                     /\ \A i \in DOMAIN Alternatives(t) :
                            /\ Alternatives(t)[i].category \in
                                   ProgramNames(TenantRegistry(t))
                            /\ Alternatives(t)[i].description \in
                                   HeldDescriptions(TenantRegistry(t),
                                                    Alternatives(t)[i].category)
              /\ (result[t].response.used_fallback /\ TenantRegistry(t) # <<>>) =>
                     /\ Best(t).category \in ProgramNames(TenantRegistry(t))
                     /\ result[t].response =
                            _keyword_guess(call[t].text, call[t].top_k,
                                           TenantRegistry(t), TenantKeywords(t)).response
        /\ (call[t].op = "classify" /\ result[t].pc = "failed") =>
              /\ HasNonStrDescription(TenantRegistry(t))
              /\ _keyword_guess(call[t].text, call[t].top_k,
                                TenantRegistry(t), TenantKeywords(t)).raised
        /\ (Returned(t) /\ result[t].path = <<"llm", "keyword">>) =>
              ~_keyword_guess(call[t].text, call[t].top_k,
                              TenantRegistry(t), TenantKeywords(t)).raised
        /\ (IsStream(t) /\ result[t].pc \in {"create", "iter", "open", "ended"}) =>
              /\ result[t].sent # <<>>
              /\ result[t].sent[1].catalog = TenantCatalog(t).lines
        /\ (IsStream(t) /\ result[t].pc = "failed") =>
              \/ TenantCatalog(t).raised /\ result[t].sent = <<>>
              \/ /\ result[t].sent # <<>>
                 /\ result[t].sent[1].catalog = TenantCatalog(t).lines
                 /\ ~call[t].stream.opens \/ call[t].stream.fails

C7_Witness ==
    \E t \in Threads :
        /\ Returned(t) \/ (IsStream(t) /\ result[t].pc = "ended")
        /\ ~Registered(call[t].organization)
        /\ TenantRegistry(t) # <<>>
        /\ \E o \in {"cil", "ilc"} :
              Registered(o) /\ DictGet(ORG_PROGRAMS, o) # TenantRegistry(t)
        /\ IsStream(t) \/ result[t].response.used_fallback

(* C8: with an empty resolved registry classify returns "Unknown", 0.0,     *)
(* "No programs loaded", no alternatives, used_fallback, and the backend is *)
(* not called during the call.                                              *)
C8_EmptyRegistry ==
    \A t \in Threads :
        (IsClassify(t) /\ TenantRegistry(t) = <<>>) =>
            /\ Best(t).category = Unknown
            /\ Best(t).confidence = 0
            /\ Best(t).reasoning = Text("No programs loaded")
            /\ Alternatives(t) = <<>>
            /\ result[t].response.used_fallback
            /\ result[t].backend_calls = 0
            /\ result[t].path = <<>>

C8_Witness ==
    \E t \in Threads :
        /\ IsClassify(t)
        /\ TenantRegistry(t) = <<>>
        /\ Registered(call[t].organization)
        /\ \E o \in {"cil", "ilc"} : Registered(o) /\ DictGet(ORG_PROGRAMS, o) # <<>>
        /\ result[t].pc = "done"
        /\ Best(t).category = Unknown

YamlFiles(l) == SelectSeq(l, LAMBDA f : f.ext = ".yaml")

(* C9: once loading is over "default" resolves; at the end of the scan it   *)
(* becomes the registry loaded from default.yaml if there is one, else the  *)
(* registry of the first tenant file scanned, else an empty registry.       *)
C9_DefaultResolves ==
    /\ [](phase = "ready" =>
            Registered("default") /\ DictHas(ORG_KEYWORDS, "default"))
    /\ [][(phase = "loading" /\ phase' = "ready") =>
            LET yamls == YamlFiles(listing)
                own == {i \in DOMAIN yamls : yamls[i].stem = "default"}
                source == IF own # {} THEN yamls[CHOOSE i \in own : TRUE]
                          ELSE yamls[1]
            IN  /\ DictHas(ORG_PROGRAMS', "default")
                /\ DictHas(ORG_KEYWORDS', "default")
                /\ IF yamls = <<>>
                   THEN /\ DictGet(ORG_PROGRAMS', "default") = <<>>
                        /\ DictGet(ORG_KEYWORDS', "default") = <<>>
                   ELSE /\ DictGet(ORG_PROGRAMS', "default") =
                               DictGet(ORG_PROGRAMS, source.stem)
                        /\ DictGet(ORG_KEYWORDS', "default") =
                               DictGet(ORG_KEYWORDS, source.stem)
                        /\ \E loaded \in _load_org_file(source.doc) :
                               /\ DictGet(ORG_PROGRAMS', "default") =
                                      loaded.programs_by_name
                               /\ DictGet(ORG_KEYWORDS', "default") =
                                      loaded.program_keywords_by_name]_vars

C9_Witness ==
    /\ phase = "ready"
    /\ Len(ORG_PROGRAMS) = 3
    /\ ORG_PROGRAMS[3].k = "default"
    /\ ORG_PROGRAMS[3].v = ORG_PROGRAMS[1].v
    /\ ORG_PROGRAMS[1].v # ORG_PROGRAMS[2].v

(* C10 as claimed: the keyword score of a program for a text is the number  *)
(* of distinct keywords of its aggregate keyword set that are substrings of *)
(* the lower-cased text; a keyword arriving by several routes counts once.  *)
C10_AsClaimed ==
    \A t \in Threads :
        IsClassify(t) =>
            \A i \in DOMAIN TenantKeywords(t) :
                KeywordScore(TenantKeywords(t)[i].v, lower(call[t].text)) =
                    Cardinality({w \in Range(TenantKeywords(t)[i].v) :
                                    contains(w, lower(call[t].text))})

\* the scorer's count for the i-th program of the tenant
ScoreOf(t, i) == KeywordScore(TenantKeywords(t)[i].v, lower(call[t].text))

\* program j is ranked ahead of program i: a higher score, or the same score
\* and an earlier place in the registry
Precedes(t, j, i) == ScoreOf(t, j) > ScoreOf(t, i) \/ (ScoreOf(t, j) = ScoreOf(t, i) /\ j < i)

RankOf(t, i) == 1 + Cardinality({j \in DOMAIN TenantKeywords(t) : Precedes(t, j, i)})

(* C11: when classify returns from the keyword path (whatever made the call  *)
(* to the backend fail) with top_k >= 1 and a top score above 0, best        *)
(* followed by the alternatives is the first min(top_k, number of programs)  *)
(* programs ranked by descending score, equal scores in registry order; best *)
(* has 0.6 and "Keyword match", every alternative 0.4 and "Partial keyword   *)
(* match".                                                                   *)
C11_KeywordRanking ==
    \A t \in Threads :
        (/\ OnKeywordPath(t)
         /\ call[t].top_k >= 1
         /\ \E i \in DOMAIN TenantKeywords(t) : ScoreOf(t, i) > 0) =>
            LET answer == <<Best(t)>> \o Alternatives(t)
                n == Len(TenantKeywords(t))
            IN  /\ result[t].response.used_fallback
                /\ Len(answer) = Min(call[t].top_k, n)
                /\ \A i \in 1..n :
                       RankOf(t, i) <= Len(answer) =>
                           answer[RankOf(t, i)].category =
                               KeyText(TenantKeywords(t)[i].k)
                /\ Best(t).confidence = 60
                /\ Best(t).reasoning = Text("Keyword match")
                /\ \A a \in DOMAIN Alternatives(t) :
                       /\ Alternatives(t)[a].confidence = 40
                       /\ Alternatives(t)[a].reasoning = Text("Partial keyword match")

C11_Witness ==
    \E t \in Threads :
        /\ OnKeywordPath(t)
        /\ BackendFailed(t)
        /\ call[t].top_k = 3
        /\ Len(TenantKeywords(t)) = 3
        /\ ScoreOf(t, 1) = 0
        /\ ScoreOf(t, 2) > 0
        /\ ScoreOf(t, 2) = ScoreOf(t, 3)
        /\ Best(t).category = TenantKeywords(t)[2].k
        /\ Len(Alternatives(t)) = 2
        /\ Alternatives(t)[2].category = TenantKeywords(t)[1].k

(* C12: when classify returns from the keyword path with a non-empty         *)
(* registry and no keyword of any program occurs in the text, best is the    *)
(* first program of the registry with its description, 0.35 and "Weak match" *)
(* and there is no alternative, whatever top_k and whatever the descriptions *)
(* of the other programs.                                                    *)
C12_WeakMatch ==
    \A t \in Threads :
        (OnKeywordPath(t) /\ TenantRegistry(t) # <<>> /\ ~SomeKeywordOccurs(t)) =>
            /\ result[t].response.used_fallback
            /\ Best(t).category = KeyText(TenantRegistry(t)[1].k)
            /\ Best(t).confidence = 35
            /\ Best(t).reasoning = Text("Weak match")
            /\ TenantRegistry(t)[1].v.description.tag \in {"str", "bytes"}
            /\ Best(t).description = Some(TenantRegistry(t)[1].v.description.s)
            /\ Alternatives(t) = <<>>

C12_Witness ==
    \E t \in Threads :
        /\ OnKeywordPath(t)
        /\ BackendFailed(t)
        /\ call[t].top_k >= 2
        /\ Len(TenantRegistry(t)) >= 2
        /\ TenantRegistry(t)[2].v.description.tag = "other"
        /\ \E i \in DOMAIN TenantKeywords(t) : TenantKeywords(t)[i].v # <<>>
        /\ ~SomeKeywordOccurs(t)
        /\ Best(t).confidence = 35
        /\ Alternatives(t) = <<>>

\* the scan has just loaded a tenant file: its document and its registry
JustLoaded ==
    /\ phase = "loading"
    /\ scanned >= 1
    /\ listing[scanned].ext = ".yaml"

SourceDoc == listing[scanned].doc
SourceEntries ==
    IF SourceDoc.programs.tag = "list" THEN SourceDoc.programs.items ELSE <<>>
LoadedRegistry == DictGet(ORG_PROGRAMS, listing[scanned].stem)
LoadedKeywords == DictGet(ORG_KEYWORDS, listing[scanned].stem)

\* the name or key an entry is stored under, <<>> when it has none: a str
\* without the whitespace around it, bytes (a key of their own) without theirs
StoredName(field) ==
    IF field.tag = "str" THEN strip(field.s)
    ELSE IF field.tag = "bytes" /\ \E c \in Range(field.s) : ~IsByteSpace(c)
    THEN BytesKey(bytes_strip(field.s))
    ELSE <<>>

\* an entry the loader is meant to keep: a mapping whose name or key is a
\* string with more than whitespace
WellFormedProgram(p) == p.tag = "dict" /\ p.name.tag = "str" /\ StoredName(p.name) # <<>>
WellFormedService(e) == e.tag = "dict" /\ e.key.tag = "str" /\ StoredName(e.key) # <<>>

\* the entry a stored program or service comes from: the last one of its name
ProgramEntryOf(pname) ==
    SourceEntries[CHOOSE i \in DOMAIN SourceEntries :
        /\ SourceEntries[i].tag = "dict" /\ StoredName(SourceEntries[i].name) = pname
        /\ \A j \in DOMAIN SourceEntries :
               (SourceEntries[j].tag = "dict" /\
                StoredName(SourceEntries[j].name) = pname) => j <= i]

ServiceEntryOf(p, skey) ==
    LET es == _ensure_list(p.services) IN
    es[CHOOSE i \in DOMAIN es :
        /\ WellFormedService(es[i]) /\ StoredName(es[i].key) = skey
        /\ \A j \in DOMAIN es :
               (WellFormedService(es[j]) /\ StoredName(es[j].key) = skey) => j <= i]

\* the keywords a keywords field declares, lower-cased: the strings of a
\* list, or the one string given in place of a list
Declared(field) ==
    IF field.tag = "list"
    THEN {lower(field.items[i].s) :
             i \in {j \in DOMAIN field.items : field.items[j].tag = "str"}}
    ELSE IF field.tag = "scalar" /\ field.one.tag = "str" /\ field.one.s # <<>>
    THEN {lower(field.one.s)}
    ELSE {}

IsSeparator(c) == c = "/" \/ c = "&" \/ IsSpace(c)

\* the lower-cased maximal runs of characters of key between separators
Tokens(key) ==
    {lower(SubSeq(key, i, j)) : <<i, j>> \in
        {ij \in (DOMAIN key) \X (DOMAIN key) :
            /\ ij[1] <= ij[2]
            /\ \A k \in ij[1]..ij[2] : ~IsSeparator(key[k])
            /\ ij[1] = 1 \/ IsSeparator(key[ij[1] - 1])
            /\ ij[2] = Len(key) \/ IsSeparator(key[ij[2] + 1])}}

(* C13: the keyword set of every loaded service is the union of its          *)
(* lower-cased declared keywords and the lower-cased non-empty tokens of its *)
(* key split on "/", "&" and whitespace, each keyword once.                  *)
C13_ServiceKeywords ==
    JustLoaded =>
        \A i \in DOMAIN LoadedRegistry :
            LET services == LoadedRegistry[i].v.services
                p == ProgramEntryOf(LoadedRegistry[i].k)
            IN  \A j \in DOMAIN services :
                    LET e == ServiceEntryOf(p, services[j].k)
                        kws == services[j].v.keywords
                    IN  /\ Range(kws) = Declared(e.keywords) \cup Tokens(services[j].k)
                        /\ Range(kws) = Declared(e.keywords) \cup Tokens(e.key.s)
                        /\ Cardinality(Range(kws)) = Len(kws)

C13_Witness ==
    /\ JustLoaded
    /\ \E i \in DOMAIN LoadedRegistry :
          LET services == LoadedRegistry[i].v.services IN
          /\ \E j \in DOMAIN services :
                /\ services[j].k = <<"w">>
                /\ Range(services[j].v.keywords) = {<<"w">>, <<"t">>}
          /\ \E j \in DOMAIN services :
                /\ services[j].k = <<"M", " ", "&", " ", "t">>
                /\ Range(services[j].v.keywords) = {<<"m">>, <<"t">>}
    /\ \E i \in DOMAIN LoadedRegistry :
          /\ Len(LoadedRegistry[i].v.services) = 1
          /\ LoadedRegistry[i].v.services[1].k = <<"R", "/", "w">>
          /\ Range(LoadedRegistry[i].v.services[1].v.keywords) = {<<"r">>, <<"w">>}

\* the keyword sets of the services a stored program holds
ServiceKeywordSets(prog) ==
    UNION {Range(prog.services[j].v.keywords) : j \in DOMAIN prog.services}

(* C14 as claimed: the aggregate keywords of every loaded program are, as a  *)
(* set, its own lower-cased declared keywords and the keyword sets of the    *)
(* services in its services mapping, and nothing that comes only from a      *)
(* service entry that is not in the mapping.                                 *)
C14_AsClaimed ==
    JustLoaded =>
        \A i \in DOMAIN LoadedRegistry :
            LET prog == LoadedRegistry[i].v
                p == ProgramEntryOf(LoadedRegistry[i].k)
                expected == Declared(p.keywords) \cup ServiceKeywordSets(prog)
            IN  /\ Range(prog.keywords) = expected
                /\ Range(DictGet(LoadedKeywords, LoadedRegistry[i].k)) = expected

(* C15 as claimed: every loaded keyword is lower-cased, and a keywords field *)
(* that is missing or is not a list gives the service only the tokens of its *)
(* key and gives a program without services no keyword.                      *)
C15_AsClaimed ==
    JustLoaded =>
        \A i \in DOMAIN LoadedRegistry :
            LET prog == LoadedRegistry[i].v
                p == ProgramEntryOf(LoadedRegistry[i].k)
            IN  /\ \A k \in Range(prog.keywords) : k = lower(k)
                /\ \A j \in DOMAIN prog.services :
                       LET e == ServiceEntryOf(p, prog.services[j].k)
                           kws == Range(prog.services[j].v.keywords)
                       IN  /\ \A k \in kws : k = lower(k)
                           /\ e.keywords.tag # "list" => kws = Tokens(prog.services[j].k)
                /\ (p.keywords.tag # "list" /\ _ensure_list(p.services) = <<>>) =>
                       prog.keywords = <<>>

\* the malformed entries of the document are of the kinds C16 names: no
\* service entry has a key that is not a string (a number, or bytes that are
\* not empty)
OnlyNamedMalformations ==
    \A i \in DOMAIN SourceEntries :
        LET es == _ensure_list(SourceEntries[i].services) IN
        \A j \in DOMAIN es :
            es[j].tag = "dict" =>
                es[j].key.tag # "other" /\ ~IsBytesKey(StoredName(es[j].key))

(* C16 as claimed: loading a document whose malformed entries are program    *)
(* entries that are no record or have a missing, empty or non-string name,   *)
(* or service entries that are no record or have an empty key, never fails;  *)
(* every well-formed program and service of the document is loaded.          *)
C16_AsClaimed ==
    (/\ scanned >= 1
     /\ listing[scanned].ext = ".yaml"
     /\ SourceDoc.tag = "mapping"
     /\ OnlyNamedMalformations) =>
        /\ phase # "crashed"
        /\ \A i \in DOMAIN SourceEntries :
               LET p == SourceEntries[i] IN
               WellFormedProgram(p) =>
                   /\ DictHas(LoadedRegistry, StoredName(p.name))
                   /\ LET q == ProgramEntryOf(StoredName(p.name))
                           es == _ensure_list(q.services)
                       IN  \A j \in DOMAIN es :
                               WellFormedService(es[j]) =>
                                   DictHas(DictGet(LoadedRegistry,
                                               StoredName(p.name)).services,
                                           StoredName(es[j].key))

NoKeyTwice(d) == \A i, j \in DOMAIN d : d[i].k = d[j].k => i = j

(* C17: in every registry, every program name and every service key is       *)
(* non-empty and not whitespace only, no two programs of a tenant have the   *)
(* same name and no two services of a program the same key.                  *)
C17_RegistryKeys ==
    \A t \in DOMAIN ORG_PROGRAMS :
        LET registry == ORG_PROGRAMS[t].v IN
        /\ NoKeyTwice(registry)
        /\ \A i \in DOMAIN registry :
               /\ KeyText(registry[i].k) # <<>>
               /\ \E c \in Range(KeyText(registry[i].k)) : ~IsSpace(c)
               /\ NoKeyTwice(registry[i].v.services)
               /\ \A j \in DOMAIN registry[i].v.services :
                      /\ registry[i].v.services[j].k # <<>>
                      /\ \E c \in Range(registry[i].v.services[j].k) : ~IsSpace(c)

C17_Witness ==
    /\ JustLoaded
    /\ Len(SourceEntries) = 3
    /\ \E i \in DOMAIN SourceEntries : SourceEntries[i].name = Str(<<" ">>)
    /\ \E i \in DOMAIN SourceEntries : SourceEntries[i].name = Str(<<"H">>)
    /\ Len(LoadedRegistry) = 1
    /\ LoadedRegistry[1].k = <<"H">>
    /\ LoadedRegistry[1].v.description = Str(<<"1">>)
    /\ Len(LoadedRegistry[1].v.services) = 2

\* what json.loads gave for the reply of the call
ReplyData(t) == IF result[t].backend.kind = "empty" THEN EmptyObject ELSE result[t].backend.data

\* classify answered from the reply of the backend
LlmAnswered(t) ==
    /\ IsClassify(t)
    /\ result[t].backend.kind \in {"json", "empty"}
    /\ ~result[t].response.used_fallback

\* alternatives of the reply whose category names a program of the registry
NamesProgram(t, o) ==
    /\ o.tag = "dict"
    /\ o.category.tag = "str"
    /\ o.category.s \in ProgramNames(TenantRegistry(t))

(* C18 as claimed: on the LLM path the alternatives are the reply's          *)
(* alternatives filtered to the entries naming a program of the registry     *)
(* and then cut to the first top_k - 1 of them: an unknown category ahead of *)
(* a valid one takes none of the places.                                     *)
C18_AsClaimed ==
    \A t \in Threads :
        LlmAnswered(t) =>
            LET filtered == SelectSeq(_ensure_list(ReplyData(t).alternatives),
                                     LAMBDA o : NamesProgram(t, o))
                expected == PySlice(filtered, 0, Max(0, call[t].top_k - 1))
            IN  [i \in DOMAIN Alternatives(t) |-> Alternatives(t)[i].category] =
                    [i \in DOMAIN expected |-> expected[i].category.s]

(* C19 as claimed: on the LLM path, when best.category of the reply names no *)
(* program of the registry, the result keeps the string as best.category and *)
(* its best.description is null, not the empty string.                       *)
C19_AsClaimed ==
    \A t \in Threads :
        (/\ LlmAnswered(t)
         /\ ReplyData(t).best.tag = "dict"
         /\ ReplyData(t).best.category.tag = "str"
         /\ ReplyData(t).best.category.s \notin ProgramNames(TenantRegistry(t))) =>
            /\ Best(t).category = ReplyData(t).best.category.s
            /\ Best(t).description = None

\* a reply that is a JSON object without "best" or whose best has no category
LacksRequiredFields(t) ==
    /\ result[t].backend.kind \in {"json", "empty"}
    /\ ReplyData(t).tag = "dict"
    /\ \/ ReplyData(t).best.tag = "absent"
       \/ ReplyData(t).best.tag = "dict" /\ ReplyData(t).best.category.tag = "absent"

(* C20 as claimed: when the reply is valid JSON without the required fields  *)
(* (the empty object, also read from an empty body; no best; a best without  *)
(* category), classify returns the keyword scorer's result with              *)
(* used_fallback, as for an unavailable backend.                             *)
C20_AsClaimed ==
    \A t \in Threads :
        (IsClassify(t) /\ TenantRegistry(t) # <<>> /\ LacksRequiredFields(t)) =>
            /\ result[t].response.used_fallback
            /\ result[t].response =
                   _keyword_guess(call[t].text, call[t].top_k, TenantRegistry(t),
                                  TenantKeywords(t)).response

\* thread t is inside classify, on a tenant that has programs
InClassify(t) ==
    /\ call[t].op = "classify"
    /\ result[t].pc # "idle"
    /\ OrgGet(ORG_PROGRAMS, result[t].org) # <<>>

\* a credential is configured and the catalog of the tenant can be rendered
PromptBuilds(t) ==
    /\ result[t].backend.kind # "no_key"
    /\ ~_programs_for_prompt(OrgGet(ORG_PROGRAMS, result[t].org),
                             MaxServicesEach).raised

\* the call to the backend or the parsing of its reply fails
AttemptFails(t) ==
    LET b == result[t].backend IN
    \/ ~PromptBuilds(t)
    \/ b.kind \in {"error", "not_json"}
    \/ /\ b.kind = "json"
       /\ \/ b.data.tag # "dict"
          \/ b.data.best.tag = "other"
          \/ /\ b.data.best.tag = "dict"
             /\ \/ b.data.best.category.tag \in {"null", "list"}
                \/ b.data.best.confidence.tag = "bad"
                \/ b.data.best.reasoning.tag = "other"

(* C21 as claimed: a classify call on a non-empty registry invokes the       *)
(* backend exactly once, before any keyword scoring, and never again; the    *)
(* keyword scorer runs only after a failure; used_fallback=false only when   *)
(* the single call succeeded.                                                *)
C21_AsClaimed ==
    \A t \in Threads :
        (InClassify(t) /\ result[t].pc = "done") =>
            /\ result[t].backend_calls = 1
            /\ result[t].path \in {<<"llm">>, <<"llm", "keyword">>}
            /\ result[t].path = <<"llm", "keyword">> => AttemptFails(t)
            /\ ~result[t].response.used_fallback => result[t].path = <<"llm">>

(* C21 amended: the backend is invoked at most once per classify call, and   *)
(* exactly once when a credential is configured and the prompt can be built  *)
(* (zero times otherwise); the attempt comes before any keyword scoring, a   *)
(* failed attempt is never repeated, the keyword scorer runs only after the  *)
(* attempt failed and ends the call, with its result or with the error it    *)
(* raises, and used_fallback=false is returned only when that one invocation *)
(* succeeded.                                                                *)
C21_SingleAttempt ==
    /\ [](\A t \in Threads :
            InClassify(t) =>
                LET r == result[t] IN
                /\ r.path \in {<<>>, <<"llm">>, <<"llm", "keyword">>}
                /\ (r.pc = "try") <=> (r.path = <<>>)
                /\ r.backend_calls = IF r.pc # "try" /\ PromptBuilds(t) THEN 1 ELSE 0
                /\ r.pc \in {"wait", "loads", "parse"} => r.backend_calls = 1
                /\ r.pc = "except" => AttemptFails(t)
                /\ (r.path = <<"llm", "keyword">>) <=>
                       (r.pc = "failed" \/ (r.pc = "done" /\ r.response.used_fallback))
                /\ r.path = <<"llm", "keyword">> => AttemptFails(t)
                /\ (r.pc = "done" /\ ~r.response.used_fallback) =>
                       r.backend_calls = 1 /\ ~AttemptFails(t))
    /\ [][\A t \in Threads :
            (InClassify(t) /\ result'[t].pc # "idle") =>
                /\ result'[t].backend_calls # result[t].backend_calls =>
                       result[t].pc = "try" /\ result[t].backend_calls = 0
                /\ (result'[t].path # result[t].path /\ result[t].pc # "try") =>
                       /\ result[t].pc = "except"
                       /\ result'[t].backend_calls = result[t].backend_calls]_vars

C21_Witness ==
    \E t, u \in Threads :
        /\ InClassify(t) /\ InClassify(u)
        /\ result[t].pc = "done" /\ result[u].pc = "failed"
        /\ result[t].backend.kind = "json"
        /\ result[t].backend_calls = 1
        /\ result[t].path = <<"llm", "keyword">>
        /\ result[u].backend.kind = "no_key"
        /\ result[u].backend_calls = 0
        /\ result[u].path = <<"llm", "keyword">>

(* C22: once loading is over no step of any classify or stream_chat call, in *)
(* any interleaving of the request threads and for any tenant, changes       *)
(* ORG_PROGRAMS or ORG_KEYWORDS; what a call ends with depends on its        *)
(* arguments and on what the backend did with its request, not on the calls  *)
(* of the other thread it was interleaved with: two calls with the same      *)
(* arguments and the same backend behaviour end alike.                       *)
C22_RegistriesReadOnly ==
    /\ [][phase = "ready" =>
            (ORG_PROGRAMS' = ORG_PROGRAMS /\ ORG_KEYWORDS' = ORG_KEYWORDS)]_vars
    /\ [](\A t, u \in Threads :
            /\ (IsClassify(t) /\ IsClassify(u) /\ call[t] = call[u]
                    /\ result[t].backend = result[u].backend) =>
                   result[t] = result[u]
            /\ (IsStream(t) /\ IsStream(u) /\ call[t] = call[u]
                    /\ result[t].pc \in {"ended", "failed"}
                    /\ result[u].pc \in {"ended", "failed"}) =>
                   result[t] = result[u])

C22_Witness ==
    \E t, u \in Threads :
        /\ t # u
        /\ IsClassify(t) /\ IsClassify(u)
        /\ call[t] = call[u]
        /\ result[t].backend = result[u].backend
        /\ result[t].backend.kind = "json"
        /\ ~result[t].response.used_fallback
        /\ result[t].backend_calls = 1

(* C23 as claimed: every option of every result of classify, best and each   *)
(* alternative, answered from the reply of the backend or by the keyword     *)
(* scorer, has a confidence within [0, 1] (0..100 in hundredths).            *)
C23_AsClaimed ==
    \A t \in Threads :
        IsClassify(t) =>
            /\ Best(t).confidence \in 0..100
            /\ \A i \in DOMAIN Alternatives(t) : Alternatives(t)[i].confidence \in 0..100

\* the lines of the catalog that follow the line that names program pname, up
\* to the line of the next program
SectionOf(lines, pname) ==
    LET at == CHOOSE i \in DOMAIN lines :
                  lines[i].kind = "program" /\ lines[i].name = pname
        later == {j \in DOMAIN lines : j > at /\ lines[j].kind = "program"}
        stop == IF later = {} THEN Len(lines) + 1
                ELSE CHOOSE j \in later : \A k \in later : j <= k
    IN  SubSeq(lines, at + 1, stop - 1)

IsServiceLine(l) == l.kind = "service"

ServiceNames(section) ==
    LET ls == SelectSeq(section, IsServiceLine)
    IN  [i \in DOMAIN ls |-> ls[i].name]

HasEllipsis(section) == \E i \in DOMAIN section : section[i].kind = "ellipsis"

IsRender(t) == call[t].op = "_programs_for_prompt" /\ result[t].pc = "done"

RenderedRegistry(t) == OrgGet(ORG_PROGRAMS, call[t].organization)

(* C24 as claimed: _programs_for_prompt with a cap >= 0 emits for each        *)
(* program its first min(cap, n) services in the program's service order,     *)
(* and the ellipsis line exactly for the programs that have more services     *)
(* than the cap; a program with exactly cap services gets none.               *)
C24_AsClaimed ==
    \A t \in Threads :
        (IsRender(t) /\ ~result[t].raised) =>
            \A p \in DOMAIN RenderedRegistry(t) :
                LET keys == DictKeys(RenderedRegistry(t)[p].v.services)
                    section == SectionOf(result[t].lines,
                                         FormatKey(RenderedRegistry(t)[p].k))
                IN  /\ ServiceNames(section) =
                           SubSeq(keys, 1, Min(call[t].max_services_each, Len(keys)))
                    /\ HasEllipsis(section) <=> Len(keys) > call[t].max_services_each

\* the system prompt of the classify call: the catalog _call_llm embeds
\* (compact_programs, with has_contacts and has_keywords, is built by
\* _call_llm and put nowhere)
PromptCatalog(t) == result[t].prompt

PromptSent(t) ==
    /\ IsClassify(t)
    /\ TenantRegistry(t) # <<>>
    /\ result[t].backend_calls = 1

IsProgramLine(l) == l.kind = "program"

(* C25 as claimed: the classification prompt built for a tenant names every  *)
(* program of the tenant's registry and no other program, lists for each     *)
(* program every one of its services whatever their number, and holds no     *)
(* keyword list.                                                             *)
C25_AsClaimed ==
    \A t \in Threads :
        PromptSent(t) =>
            LET named == SelectSeq(PromptCatalog(t), IsProgramLine)
            IN  /\ [i \in DOMAIN named |-> named[i].name] =
                       [i \in DOMAIN TenantRegistry(t) |->
                           FormatKey(TenantRegistry(t)[i].k)]
                /\ \A p \in DOMAIN TenantRegistry(t) :
                       ServiceNames(SectionOf(PromptCatalog(t),
                                              FormatKey(TenantRegistry(t)[p].k))) =
                           DictKeys(TenantRegistry(t)[p].v.services)

HasText(chunk) == ~chunk.none /\ chunk.s # ""

\* the texts of the chunks that carry text, in the order of the backend
TextsOf(chunks) ==
    LET kept == SelectSeq(chunks, HasText)
    IN  [i \in DOMAIN kept |-> kept[i].s]

\* the system instruction of the tenant the stream is answered from
SystemMessage(t) ==
    [role |-> "system",
     catalog |-> _programs_for_prompt(
                     OrgGet(ORG_PROGRAMS, ResolveOrg(call[t].organization)),
                     MaxServicesEach).lines,
     content |-> ""]

(* C26: stream_chat sends the system instruction followed by the history of  *)
(* the caller unchanged; what it has yielded is at every moment exactly the  *)
(* texts of the non-empty chunks the backend has delivered so far, in order  *)
(* (none empty, doubled, reordered or dropped), all of them when the stream  *)
(* ends; once the consumer has stopped pulling nothing more is produced.     *)
C26_StreamFragments ==
    /\ [](\A t \in Threads :
            (IsStream(t) /\ result[t].pc # "idle") =>
                LET r == result[t]
                    chunks == call[t].stream.chunks
                IN  /\ r.pc \in {"create", "iter", "open", "ended"} => r.sent # <<>>
                    /\ r.sent # <<>> =>
                           r.sent = <<SystemMessage(t)>> \o call[t].messages
                    /\ r.yielded = TextsOf(SubSeq(chunks, 1, r.pos))
                    /\ \A i \in DOMAIN r.yielded : r.yielded[i] # ""
                    /\ r.pc = "open" => r.yielded # <<>> /\ HasText(chunks[r.pos])
                    /\ r.pc = "ended" => r.yielded = TextsOf(chunks))
    /\ [][\A t \in Threads :
            (IsStream(t) /\ result[t].pc = "closed") =>
                \/ result'[t] = result[t]
                \/ result'[t] = Idle]_vars

C26_Witness ==
    \E t \in Threads :
        /\ IsStream(t)
        /\ result[t].pc = "ended"
        /\ Len(call[t].messages) > 1
        /\ Len(result[t].yielded) = 1
        /\ Len(call[t].stream.chunks) = MaxChunks

(* C27 as claimed: when the backend stream fails after some fragments were   *)
(* yielded, or before any, the sequence ends normally: the consumer sees no  *)
(* error raised out of it.                                                   *)
C27_AsClaimed ==
    \A t \in Threads :
        (IsStream(t) /\ call[t].stream.opens /\ call[t].stream.fails) =>
            result[t].pc # "failed"

(* C28: for every tenant of the tenant map, the aliased "default" included,  *)
(* ORG_PROGRAMS and ORG_KEYWORDS hold the same program names in the same     *)
(* insertion order, also when the configuration repeats a name; so the best  *)
(* category and every alternative of every result of the keyword scorer is a *)
(* program of the registry (the scorer gives no result only on a registry    *)
(* with a description that is neither str nor bytes).                        *)
C28_SameNames ==
    /\ DictKeys(ORG_PROGRAMS) = DictKeys(ORG_KEYWORDS)
    /\ \A t \in DOMAIN ORG_PROGRAMS :
           LET registry == ORG_PROGRAMS[t].v
               index == ORG_KEYWORDS[t].v
           IN  /\ DictKeys(registry) = DictKeys(index)
               /\ registry # <<>> =>
                      \A text \in ScorerTexts, top_k \in 1..MaxTopK :
                          LET got == _keyword_guess(text, top_k, registry, index)
                              r == got.response
                          IN  /\ got.raised => HasNonStrDescription(registry)
                              /\ ~got.raised =>
                                     /\ r.best.category \in ProgramNames(registry)
                                     /\ Len(r.alternatives) =
                                            IF r.best.confidence = 35 THEN 0
                                            ELSE Min(top_k, Len(registry)) - 1
                                     /\ \A i \in DOMAIN r.alternatives :
                                            r.alternatives[i].category \in
                                                ProgramNames(registry)

C28_Witness ==
    /\ JustLoaded
    /\ Len(SourceEntries) = 3
    /\ \E i, j \in DOMAIN SourceEntries :
           /\ i < j
           /\ WellFormedProgram(SourceEntries[i])
           /\ WellFormedProgram(SourceEntries[j])
           /\ StoredName(SourceEntries[i].name) = StoredName(SourceEntries[j].name)
    /\ Len(LoadedRegistry) = 2
    /\ Len(LoadedKeywords) = 2
    /\ LoadedKeywords[1].v # <<>>
    /\ ~HasNonStrDescription(LoadedRegistry)

\* thread t is in an appointment lookup; it has left it
InAppointments(t) ==
    call[t].op \in {"get_appointments_by_date", "get_matched_appointments"}

IsAppointments(t) == InAppointments(t) /\ result[t].pc \in {"done", "failed"}

IsAdmin(t) == call[t].op = "get_appointments_by_date"

\* the accounts the call scans, and the calendars it polls on one of them
ScannedAccounts(t) == ResolveAccounts(call[t].service_account_file, call[t].env)

Usable(t, account) ==
    /\ account.creds_ok
    /\ call[t].calendar_ids = <<>> => ~account.calendar_list.fails

PolledCalendars(t, account) ==
    IF call[t].calendar_ids # <<>> THEN Range(call[t].calendar_ids)
    ELSE Range(account.calendar_list.items)

\* event k of a readable calendar is reached when every event before it was
\* read to its end, and is read up to attendee m when its start and its
\* attendees up to m are well formed
ReadToEnd(event) ==
    /\ ~StartRaises(event.start)
    /\ \A m \in DOMAIN event.attendees : event.attendees[m].tag = "dict"

Reached(events, k) == \A j \in 1..(k - 1) : ReadToEnd(events[j])

\* the appointments of the events the scan has collected
Collected(t) ==
    UNION {UNION {UNION {
        IF ~Reached(account.events[c].items, k) \/
           StartRaises(account.events[c].items[k].start)
        THEN {}
        ELSE LET event == account.events[c].items[k] IN
             IF event.attendees = <<>>
             THEN IF IsAdmin(t)
                  THEN {Appointment(event, c, account.file, NullStr, Str(NoAttendee))}
                  ELSE {}
             ELSE {Appointment(event, c, account.file,
                               AttendeeEmail(event.attendees[m]),
                               AttendeeName(event.attendees[m])) :
                      m \in {n \in DOMAIN event.attendees :
                                \A i \in 1..n : event.attendees[i].tag = "dict"}}
        : k \in DOMAIN account.events[c].items}
        : c \in {d \in PolledCalendars(t, account) : ~account.events[d].fails}}
        : account \in {a \in Range(ScannedAccounts(t)) : Usable(t, a)}}

\* an unexpected error: an argument of the wrong type, or, when the
\* appointments are matched, a collected attendee name that is a number
UnexpectedError(t) ==
    \/ call[t].service_account_file.form = "other"
    \/ IsAdmin(t) /\ ~call[t].target_date.valid
    \/ ~IsAdmin(t) /\ ~call[t].start_time.valid
    \/ ~IsAdmin(t) /\ \E appt \in Collected(t) : NameRaises(appt)

Wanted(t, appt) ==
    IsAdmin(t) \/ Matches(appt, call[t].first_name, call[t].last_name, call[t].start_time,
                       call[t].service)

(* C29: get_appointments_by_date and get_matched_appointments never raise    *)
(* and return a list, empty when no account is available or on an            *)
(* unexpected error; otherwise a failure of one account (credentials,        *)
(* calendar listing) or of one calendar (event listing, event parsing)       *)
(* loses nothing else: the outcome holds the appointments of every event     *)
(* collected before the failure and of every other account and calendar, and *)
(* nothing besides (get_matched_appointments keeps those that match).        *)
C29_ScanSurvivesFailures ==
    \A t \in Threads :
        /\ InAppointments(t) =>
               /\ result[t].pc \in {"creds", "list", "events", "done"}
               /\ Range(result[t].all_appointments) \subseteq Collected(t)
        /\ IsAppointments(t) =>
               /\ result[t].pc = "done"
               /\ DOMAIN result[t].value = 1..Len(result[t].value)
               /\ IF UnexpectedError(t) \/ ScannedAccounts(t) = <<>>
                  THEN result[t].value = <<>>
                  ELSE /\ Range(result[t].value) = {appt \in Collected(t) : Wanted(t, appt)}
                       /\ Len(result[t].value) = Cardinality(Range(result[t].value))

C29_Witness ==
    \E t \in Threads :
        /\ IsAppointments(t)
        /\ IsAdmin(t)
        /\ Len(ScannedAccounts(t)) = 2
        /\ ~ScannedAccounts(t)[1].creds_ok
        /\ Usable(t, ScannedAccounts(t)[2])
        /\ \E c \in PolledCalendars(t, ScannedAccounts(t)[2]) :
               /\ ~ScannedAccounts(t)[2].events[c].fails
               /\ \E k \in DOMAIN ScannedAccounts(t)[2].events[c].items :
                      StartRaises(ScannedAccounts(t)[2].events[c].items[k].start)
        /\ Len(result[t].value) >= 4

====
